---- MODULE Spec2Model ----
(***************************************************************************)
(* Model of the progress tracker (HierarchicalProgressManager), of the     *)
(* step orchestrator (DeepAgentResearchSystem) and of its plan parser      *)
(* (_parse_plan) of medical-deep-research.                                 *)
(*                                                                         *)
(* Time is a counter `now` in milliseconds that an environment action      *)
(* advances; datetime.now(UTC) and time.time() both read it.  Free text    *)
(* that no branch of the code reads (messages, step names, details, result *)
(* previews) is left out of the records.                                   *)
(***************************************************************************)
EXTENDS Integers, Sequences, FiniteSets, TLC

VARIABLES
    now,               \* the clock read by datetime.now(UTC) / time.time()
    state,             \* HierarchicalProgressManager.state (ProgressState)
    step_start_times,  \* HierarchicalProgressManager._step_start_times
    tool_start_times,  \* HierarchicalProgressManager._tool_start_times
    heap,              \* the ToolExecution objects, by reference
    callback,          \* HierarchicalProgressManager._callback ("none" when unset)
    last,              \* what the latest Tracker call did, as its caller and observer saw it
    calls,             \* the number of Tracker calls made so far
    run,               \* the orchestrator: its position in analyze_topic and its locals
    parse,             \* _parse_plan: its position, its argument and its locals
    research_jobs      \* api/main.py: the entry of the job in research_jobs, if any

vars == <<now, state, step_start_times, tool_start_times, heap, callback, last, calls,
          run, parse, research_jobs>>

-----------------------------------------------------------------------------
(* Bounds of the model *)

\* the clock stops at MaxTime; a caller of the Tracker makes at most MaxCalls calls;
\* a plan parsed from the model's text has at most MaxPlan steps
MaxTime == 1
MaxCalls == 3
MaxPlan == 2

-----------------------------------------------------------------------------
(* Values *)

\* Python's None in a string-valued field, and in a time- or duration-valued field
None == "None"
NoTime == -1

StepStatusValues == {"pending", "in_progress", "completed", "failed", "skipped"}
AgentStateValues == {"idle", "planning", "running", "waiting", "completed", "failed"}
ToolStatusValues == {"running", "completed", "failed"}

\* StepStatus(status): the enum member of a valid value; ValueError otherwise, and
\* the caller then stores the raw string
StepStatus(status) ==
    IF status \in StepStatusValues
    THEN [kind |-> "StepStatus", value |-> status]
    ELSE [kind |-> "raw", value |-> status]

AgentState(status) ==
    IF status \in AgentStateValues
    THEN [kind |-> "AgentState", value |-> status]
    ELSE [kind |-> "raw", value |-> status]

\* PlanningStep(id=..., action=...) with the dataclass defaults
PlanningStep(id, action) ==
    [id |-> id, action |-> action, status |-> StepStatus("pending"),
     started_at |-> NoTime, completed_at |-> NoTime, duration_ms |-> NoTime,
     error |-> None]

\* AgentStatus(name=..., parent_agent=..., started_at=...) with the dataclass defaults
AgentStatus(name, parent, t) ==
    [name |-> name, status |-> AgentState("idle"), current_tool |-> None,
     parent_agent |-> parent, started_at |-> t]

\* ToolExecution(tool=..., status="running", query=...), started_at from the default factory
ToolExecution(tool, qlen, t) ==
    [tool |-> tool, status |-> "running", query |-> qlen, started_at |-> t,
     completed_at |-> NoTime, duration_ms |-> NoTime, error |-> None]

\* ProgressState(research_id) followed by the append of the main agent in __init__
InitialState(t) ==
    [phase |-> "init", overall_progress |-> 0,
     planning_steps |-> << >>,
     active_agents |-> << AgentStatus("main", None, t) >>,
     tool_executions |-> << >>,
     updated_at |-> t]

-----------------------------------------------------------------------------
(* Sequence helpers *)

Min(a, b) == IF a < b THEN a ELSE b
Max(a, b) == IF a > b THEN a ELSE b

\* the first of the indexes in S, 0 when there is none: what a search through a
\* list from its head finds
FirstIndex(S) ==
    IF S = {} THEN 0 ELSE CHOOSE i \in S : \A j \in S : i <= j

-----------------------------------------------------------------------------
(* The manager as one value: operations map a manager to a manager *)

Mgr == [state |-> state, step_start_times |-> step_start_times,
        tool_start_times |-> tool_start_times, heap |-> heap]

\* get_step: index of the first step with this id, 0 for None
get_step(m, step_id) ==
    FirstIndex({i \in 1..Len(m.state.planning_steps) :
                   m.state.planning_steps[i].id = step_id})

\* _get_main_agent: index of the first agent named "main", 0 for None
get_main_agent(m) ==
    FirstIndex({i \in 1..Len(m.state.active_agents) :
                   m.state.active_agents[i].name = "main"})

-----------------------------------------------------------------------------
(* Serialization: to_dict of the records and of the state *)

QueryPreviewLimit == 100
EllipsisLen == 3

\* a query is modelled by its length; to_dict keeps 100 characters and adds "..."
QueryPreview(qlen) ==
    IF qlen > QueryPreviewLimit THEN QueryPreviewLimit + EllipsisLen ELSE qlen

\* PlanningStep.to_dict: the enum member is replaced by its value
StepToDict(s) ==
    [id |-> s.id, action |-> s.action, status |-> s.status.value,
     started_at |-> s.started_at, completed_at |-> s.completed_at,
     duration_ms |-> s.duration_ms, error |-> s.error]

AgentToDict(a) ==
    [name |-> a.name, status |-> a.status.value, current_tool |-> a.current_tool,
     parent_agent |-> a.parent_agent, started_at |-> a.started_at]

ToolToDict(e) ==
    [tool |-> e.tool, status |-> e.status, query |-> QueryPreview(e.query),
     started_at |-> e.started_at, completed_at |-> e.completed_at,
     duration_ms |-> e.duration_ms, error |-> e.error]

\* ProgressState.to_dict, the snapshot handed to the observer
to_dict(m) ==
    [phase |-> m.state.phase,
     overall_progress |-> m.state.overall_progress,
     planning_steps |->
        [i \in 1..Len(m.state.planning_steps) |-> StepToDict(m.state.planning_steps[i])],
     active_agents |->
        [i \in 1..Len(m.state.active_agents) |-> AgentToDict(m.state.active_agents[i])],
     tool_executions |->
        [i \in 1..Len(m.state.tool_executions) |->
            ToolToDict(m.heap[m.state.tool_executions[i]])],
     updated_at |-> m.state.updated_at]

-----------------------------------------------------------------------------
(* Tracker operations.  Each maps the manager m, at time t, to the result of *)
(* the call: the manager after it, the snapshots the observer was handed,    *)
(* and whether an exception left the call.  cb is the registered callback    *)
(* and raises says whether the observer raises when it is invoked.           *)

\* kind tells a call that reached _emit_update ("mutation") from one that returned
\* before it ("returned")
Result(kind, m, delivered, raised, escaped) ==
    [kind |-> kind, m |-> m, delivered |-> delivered, raised |-> raised,
     escaped |-> escaped]

\* a call that returns before _emit_update
Returned(m) == Result("returned", m, << >>, FALSE, FALSE)

\* DeepAgentResearchSystem._on_progress_update, the callback that
\* set_progress_callback registers: the snapshot's planning_steps and
\* tool_executions are lists of dicts, and calling to_dict() on a dict raises
\* AttributeError, so it raises exactly when one of the two lists is not empty
on_progress_update_raises(snapshot) ==
    \/ Len(snapshot.planning_steps) > 0
    \/ Len(snapshot.tool_executions) > 0

\* whether the callback cb raises on this snapshot; raises is the choice of an
\* observer the caller supplied
CallbackRaises(cb, snapshot, raises) ==
    IF cb = "_on_progress_update" THEN on_progress_update_raises(snapshot) ELSE raises

\* _emit_update without the try/except around the callback: an exception of the
\* observer leaves the call
emit_update_unguarded(m, t, cb, raises) ==
    LET m1 == [m EXCEPT !.state.updated_at = t]
        raised == CallbackRaises(cb, to_dict(m1), raises)
    IN  IF cb # "none"
        THEN Result("mutation", m1, << to_dict(m1) >>, raised, raised)
        ELSE Result("mutation", m1, << >>, FALSE, FALSE)

\* _emit_update: refresh updated_at, then hand the snapshot to the callback inside
\* try/except Exception, which logs an exception of the callback and drops it
emit_update(m, t, cb, raises) ==
    LET m1 == [m EXCEPT !.state.updated_at = t]
        raised == CallbackRaises(cb, to_dict(m1), raises)
        caught == TRUE
    IN  IF cb # "none"
        THEN Result("mutation", m1, << to_dict(m1) >>, raised, raised /\ ~caught)
        ELSE Result("mutation", m1, << >>, FALSE, FALSE)

\* an update_phase that takes the phase "formatting" for work under way
PhaseAgentStatus_formatting_runs(phase, old) ==
    IF phase = "planning" THEN AgentState("planning")
    ELSE IF phase \in {"execution", "synthesis", "formatting"} THEN AgentState("running")
    ELSE IF phase = "complete" THEN AgentState("completed")
    ELSE old

\* the main agent's status after update_phase(phase, ...)
PhaseAgentStatus(phase, old) ==
    IF phase = "planning" THEN AgentState("planning")
    ELSE IF phase \in {"execution", "synthesis"} THEN AgentState("running")
    ELSE IF phase = "complete" THEN AgentState("completed")
    ELSE old

\* what update_phase stores for a progress argument; progress is << >> for None
\* and << p >> for the integer p
PhaseProgress(progress, old) ==
    IF progress # << >> THEN progress[1] ELSE old

update_phase(m, t, cb, raises, phase, progress) ==
    LET main == get_main_agent(m)
        s1 == [m.state EXCEPT
                  !.phase = phase,
                  !.overall_progress = PhaseProgress(progress, @)]
        s2 == IF main # 0
              THEN [s1 EXCEPT !.active_agents[main].status = PhaseAgentStatus(phase, @)]
              ELSE s1
    IN  emit_update([m EXCEPT !.state = s2], t, cb, raises)

\* min(100, max(0, progress))
Clamp(progress) == Min(100, Max(0, progress))

update_progress(m, t, cb, raises, progress) ==
    emit_update([m EXCEPT !.state.overall_progress = Clamp(progress)], t, cb, raises)

add_planning_step(m, t, cb, raises, step) ==
    emit_update([m EXCEPT !.state.planning_steps = Append(@, step)], t, cb, raises)

\* the timing branch of update_step_status on the step at index i
StepTiming(m, t, i, step_id, status) ==
    IF status = "in_progress"
    THEN [m EXCEPT
            !.state.planning_steps[i].started_at = t,
            !.step_start_times =
                [x \in DOMAIN @ \cup {step_id} |-> IF x = step_id THEN t ELSE @[x]]]
    ELSE IF status \in {"completed", "failed"}
    THEN [m EXCEPT
            !.state.planning_steps[i].completed_at = t,
            !.state.planning_steps[i].duration_ms =
                IF step_id \in DOMAIN m.step_start_times
                THEN t - m.step_start_times[step_id]
                ELSE @]
    ELSE m

\* an update_step_status that goes on to _emit_update when it finds no step
update_step_status_emits_unmatched(m, t, cb, raises, step_id, status, error) ==
    LET i == get_step(m, step_id)
    IN  IF i = 0
        THEN emit_update(m, t, cb, raises)
        ELSE LET m1 == [m EXCEPT !.state.planning_steps[i].status = StepStatus(status)]
                 m2 == StepTiming(m1, t, i, step_id, status)
                 m3 == IF error # None
                       THEN [m2 EXCEPT !.state.planning_steps[i].error = error]
                       ELSE m2
             IN  emit_update(m3, t, cb, raises)

update_step_status(m, t, cb, raises, step_id, status, error) ==
    LET i == get_step(m, step_id)
    IN  IF i = 0
        THEN Returned(m)
        ELSE LET m1 == [m EXCEPT !.state.planning_steps[i].status = StepStatus(status)]
                 m2 == StepTiming(m1, t, i, step_id, status)
                 m3 == IF error # None
                       THEN [m2 EXCEPT !.state.planning_steps[i].error = error]
                       ELSE m2
             IN  emit_update(m3, t, cb, raises)

update_agent_status(m, t, cb, raises, agent_name, status, current_tool) ==
    LET found == FirstIndex({i \in 1..Len(m.state.active_agents) :
                                m.state.active_agents[i].name = agent_name})
        agents == IF found = 0
                  THEN Append(m.state.active_agents, AgentStatus(agent_name, None, t))
                  ELSE m.state.active_agents
        i == IF found = 0 THEN Len(agents) ELSE found
        a1 == [agents EXCEPT ![i].status = AgentState(status)]
        a2 == IF current_tool # None
              THEN [a1 EXCEPT ![i].current_tool = current_tool]
              ELSE a1
    IN  emit_update([m EXCEPT !.state.active_agents = a2], t, cb, raises)

\* the agent list after add_sub_agent
WithSubAgent(agents, name, parent, t) == Append(agents, AgentStatus(name, parent, t))

add_sub_agent(m, t, cb, raises, name, parent) ==
    emit_update([m EXCEPT !.state.active_agents = WithSubAgent(@, name, parent, t)],
                t, cb, raises)

\* the agent list after remove_sub_agent
WithoutAgent(agents, name) ==
    LET Keep(a) == a.name # name IN SelectSeq(agents, Keep)

remove_sub_agent(m, t, cb, raises, name) ==
    emit_update([m EXCEPT !.state.active_agents = WithoutAgent(@, name)], t, cb, raises)

\* the caller's ToolExecution(...) constructor: a new object, referred to by its
\* index in the heap
new_tool_execution(m, t, tool, qlen) ==
    [m EXCEPT !.heap = Append(@, ToolExecution(tool, qlen, t))]

\* add_tool_execution emitting before it sets the main agent's current tool: the
\* observer sees the record appended and the agent not yet updated
add_tool_execution_emits_early(m, t, cb, raises, execution) ==
    LET tool == m.heap[execution].tool
        main == get_main_agent(m)
        m1 == [m EXCEPT
                 !.state.tool_executions = Append(@, execution),
                 !.tool_start_times =
                     [x \in DOMAIN @ \cup {tool} |-> IF x = tool THEN t ELSE @[x]]]
        r == emit_update(m1, t, cb, raises)
    IN  IF main # 0
        THEN [r EXCEPT !.m.state.active_agents[main].current_tool = tool]
        ELSE r

add_tool_execution(m, t, cb, raises, execution) ==
    LET tool == m.heap[execution].tool
        main == get_main_agent(m)
        m1 == [m EXCEPT
                 !.state.tool_executions = Append(@, execution),
                 !.tool_start_times =
                     [x \in DOMAIN @ \cup {tool} |-> IF x = tool THEN t ELSE @[x]]]
        m2 == IF main # 0
              THEN [m1 EXCEPT !.state.active_agents[main].current_tool = tool]
              ELSE m1
    IN  emit_update(m2, t, cb, raises)

\* the loop of update_tool_execution: the first record with the same tool and
\* the same started_at is replaced by the caller's object
MatchingExecution(m, execution) ==
    LET Same(r) == /\ m.heap[r].tool = m.heap[execution].tool
                   /\ m.heap[r].started_at = m.heap[execution].started_at
    IN  FirstIndex({i \in 1..Len(m.state.tool_executions) :
                       Same(m.state.tool_executions[i])})

\* an update_tool_execution that stores the record without its timing
update_tool_execution_untimed(m, t, cb, raises, execution) ==
    LET e == m.heap[execution]
        done == e.status \in {"completed", "failed"}
        i == MatchingExecution(m, execution)
        main == get_main_agent(m)
        m2 == IF i # 0
              THEN [m EXCEPT !.state.tool_executions[i] = execution]
              ELSE m
        m3 == IF done /\ main # 0 /\ m2.state.active_agents[main].current_tool = e.tool
              THEN [m2 EXCEPT !.state.active_agents[main].current_tool = None]
              ELSE m2
    IN  emit_update(m3, t, cb, raises)

\* an update_tool_execution that clears the main agent's current tool whatever
\* tool it names
update_tool_execution_clears_any(m, t, cb, raises, execution) ==
    LET e == m.heap[execution]
        done == e.status \in {"completed", "failed"}
        i == MatchingExecution(m, execution)
        main == get_main_agent(m)
        m1 == IF i # 0 /\ done
              THEN [m EXCEPT
                      !.heap[execution].completed_at = t,
                      !.heap[execution].duration_ms =
                          IF e.tool \in DOMAIN m.tool_start_times
                          THEN t - m.tool_start_times[e.tool]
                          ELSE @]
              ELSE m
        m2 == IF i # 0
              THEN [m1 EXCEPT !.state.tool_executions[i] = execution]
              ELSE m1
        m3 == IF done /\ main # 0
              THEN [m2 EXCEPT !.state.active_agents[main].current_tool = None]
              ELSE m2
    IN  emit_update(m3, t, cb, raises)

\* an update_tool_execution that clears the main agent's current tool for a
\* completed execution only
update_tool_execution_keeps_failed(m, t, cb, raises, execution) ==
    LET e == m.heap[execution]
        done == e.status \in {"completed", "failed"}
        i == MatchingExecution(m, execution)
        main == get_main_agent(m)
        m1 == IF i # 0 /\ done
              THEN [m EXCEPT
                      !.heap[execution].completed_at = t,
                      !.heap[execution].duration_ms =
                          IF e.tool \in DOMAIN m.tool_start_times
                          THEN t - m.tool_start_times[e.tool]
                          ELSE @]
              ELSE m
        m2 == IF i # 0
              THEN [m1 EXCEPT !.state.tool_executions[i] = execution]
              ELSE m1
        m3 == IF e.status = "completed" /\ main # 0
                 /\ m2.state.active_agents[main].current_tool = e.tool
              THEN [m2 EXCEPT !.state.active_agents[main].current_tool = None]
              ELSE m2
    IN  emit_update(m3, t, cb, raises)

update_tool_execution(m, t, cb, raises, execution) ==
    LET e == m.heap[execution]
        done == e.status \in {"completed", "failed"}
        i == MatchingExecution(m, execution)
        main == get_main_agent(m)
        m1 == IF i # 0 /\ done
              THEN [m EXCEPT
                      !.heap[execution].completed_at = t,
                      !.heap[execution].duration_ms =
                          IF e.tool \in DOMAIN m.tool_start_times
                          THEN t - m.tool_start_times[e.tool]
                          ELSE @]
              ELSE m
        m2 == IF i # 0
              THEN [m1 EXCEPT !.state.tool_executions[i] = execution]
              ELSE m1
        m3 == IF done /\ main # 0 /\ m2.state.active_agents[main].current_tool = e.tool
              THEN [m2 EXCEPT !.state.active_agents[main].current_tool = None]
              ELSE m2
    IN  emit_update(m3, t, cb, raises)

-----------------------------------------------------------------------------
(* calculate_overall_progress computes with Python floats (IEEE 754 binary64, *)
(* round to nearest, ties to even).  A float is modelled exactly: m is its    *)
(* significand as a sequence of Precision bits, the first of them 1 and the   *)
(* most significant first, and e the exponent of the last bit, so that the    *)
(* value is m * 2^e; zero has the empty significand.                          *)

Precision == 53

Zero == [m |-> << >>, e |-> 0]

Front(bits) == SubSeq(bits, 1, Len(bits) - 1)

\* the arithmetic on bit sequences works on ChunkBits bits at a time
ChunkBits == 12

\* the bits of the natural number n, without leading zeros
RECURSIVE ToBits(_)
ToBits(n) == IF n = 0 THEN << >> ELSE Append(ToBits(n \div 2), n % 2)

\* the natural number with these bits, for at most ChunkBits bits
RECURSIVE BitsValue(_)
BitsValue(bits) ==
    IF bits = << >> THEN 0 ELSE 2 * BitsValue(Front(bits)) + bits[Len(bits)]

\* the n bits of the natural number v < 2^n
ValueBits(v, n) == [k \in 1..n |-> (v \div (2 ^ (n - k))) % 2]

\* bits without its leading zeros
Strip(bits) ==
    LET ones == {k \in 1..Len(bits) : bits[k] = 1}
    IN  IF ones = {} THEN << >>
        ELSE SubSeq(bits, CHOOSE k \in ones : \A j \in ones : k <= j, Len(bits))

\* the last ChunkBits bits, or all of them, and the bits before them
LastChunk(bits) ==
    SubSeq(bits, Max(1, Len(bits) - ChunkBits + 1), Len(bits))

BeforeLastChunk(bits) == SubSeq(bits, 1, Len(bits) - ChunkBits)

\* a + b + carry for bit sequences of one length
RECURSIVE AddBits(_, _, _)
AddBits(a, b, carry) ==
    IF a = << >> THEN ToBits(carry)
    ELSE LET w == Len(LastChunk(a))
             d == BitsValue(LastChunk(a)) + BitsValue(LastChunk(b)) + carry
         IN  AddBits(BeforeLastChunk(a), BeforeLastChunk(b), d \div (2 ^ w))
             \o ValueBits(d % (2 ^ w), w)

\* bits + 1
Increment(bits) ==
    AddBits(bits, [k \in 1..Len(bits) |-> IF k = Len(bits) THEN 1 ELSE 0], 0)

\* the float nearest to bits * 2^e (plus a non-zero remainder below the last bit
\* when sticky holds); bits begins with 1
RoundBits(bits, sticky, e) ==
    LET L == Len(bits)
        kept == SubSeq(bits, 1, Precision)
        guard == bits[Precision + 1]
        rest == sticky \/ \E k \in (Precision + 2)..L : bits[k] = 1
        up == Increment(kept)
    IN  IF L = 0 THEN Zero
        ELSE IF L <= Precision
        THEN [m |-> bits \o [k \in 1..(Precision - L) |-> 0], e |-> e - (Precision - L)]
        ELSE IF guard = 1 /\ (rest \/ kept[Precision] = 1)
        THEN IF Len(up) > Precision
             THEN [m |-> SubSeq(up, 1, Precision), e |-> e + (L - Precision) + 1]
             ELSE [m |-> up, e |-> e + (L - Precision)]
        ELSE [m |-> kept, e |-> e + (L - Precision)]

\* long division, ChunkBits bits of the quotient at a time: r is the remainder
\* so far, sig the quotient bits from the first 1 on, nfrac the number of bits
\* after the binary point
RECURSIVE DivBits(_, _, _, _)
DivBits(r, b, sig, nfrac) ==
    IF Len(sig) >= Precision + 2 THEN RoundBits(sig, r # 0, -nfrac)
    ELSE LET n == r * (2 ^ ChunkBits)
         IN  DivBits(n % b, b, Strip(sig \o ValueBits(n \div b, ChunkBits)),
                     nfrac + ChunkBits)

\* a / b for the integers a >= 0 and b > 0
float_div(a, b) ==
    IF a = 0 THEN Zero ELSE DivBits(a % b, b, ToBits(a \div b), 0)

\* bits * k + carry
RECURSIVE MulBits(_, _, _)
MulBits(bits, k, carry) ==
    IF bits = << >> THEN ToBits(carry)
    ELSE LET w == Len(LastChunk(bits))
             d == BitsValue(LastChunk(bits)) * k + carry
         IN  MulBits(BeforeLastChunk(bits), k, d \div (2 ^ w))
             \o ValueBits(d % (2 ^ w), w)

\* x * k for the float x and the integer k > 0
float_mul(x, k) ==
    IF x.m = << >> THEN Zero ELSE RoundBits(Strip(MulBits(x.m, k, 0)), FALSE, x.e)

\* x + y for floats that are not negative
float_add(x, y) ==
    IF x.m = << >> THEN y
    ELSE IF y.m = << >> THEN x
    ELSE LET e0 == IF x.e < y.e THEN x.e ELSE y.e
             a == x.m \o [k \in 1..(x.e - e0) |-> 0]
             b == y.m \o [k \in 1..(y.e - e0) |-> 0]
             n == IF Len(a) > Len(b) THEN Len(a) ELSE Len(b)
             a1 == [k \in 1..(n - Len(a)) |-> 0] \o a
             b1 == [k \in 1..(n - Len(b)) |-> 0] \o b
         IN  RoundBits(Strip(AddBits(a1, b1, 0)), FALSE, e0)

\* int(x) for a float x with 0 <= x < 2^Precision
float_int(x) ==
    IF Len(x.m) + x.e <= 0 THEN 0 ELSE BitsValue(SubSeq(x.m, 1, Len(x.m) + x.e))

\* calculate_overall_progress: in_progress_steps * 0.5 is exact, and so is the
\* quotient of it by total_steps the float nearest to
\* in_progress_steps / (2 * total_steps)
calculate_overall_progress(m) ==
    LET steps == m.state.planning_steps
        total_steps == Len(steps)
        completed_steps ==
            Cardinality({i \in 1..total_steps :
                            steps[i].status \in {StepStatus("completed"),
                                                 StepStatus("skipped")}})
        in_progress_steps ==
            Cardinality({i \in 1..total_steps :
                            steps[i].status = StepStatus("in_progress")})
        base_progress == float_mul(float_div(completed_steps, total_steps), 100)
        partial_progress ==
            float_mul(float_div(in_progress_steps, 2 * total_steps), 100)
    IN  IF steps = << >> THEN m.state.overall_progress
        ELSE Min(100, float_int(float_add(base_progress, partial_progress)))

-----------------------------------------------------------------------------------------------------------------------------------------------------
(* The Tracker driven through its public methods by an arbitrary caller *)

StepIds == {"1", "2"}
PhaseArgs == {"planning", "error"}
ProgressArgs == {-5, 150}
StatusArgs == StepStatusValues \cup {"bogus"}
AgentNames == {"main", "sub"}
ToolNames == {"pico_query", "pubmed_search"}
QueryLens == {140}

\* the observer of a caller may return or raise; without one nothing is invoked
Outcomes == IF callback = "none" THEN {FALSE} ELSE BOOLEAN

\* the orchestrator before analyze_topic
NoOutcome == [raised |-> FALSE, via |-> None, sources |-> 0]

NewRun ==
    [pc |-> "new", query |-> 0, steps |-> << >>, i |-> 0, tool_exec |-> 0,
     outcome |-> NoOutcome, findings |-> << >>, context |-> << >>, all_links |-> 0,
     invoked |-> << >>, reported |-> << >>, error |-> None, plan_raised |-> FALSE,
     formatted |-> << >>]

\* _parse_plan is not running
NotParsing == [pc |-> "idle"]

NoCall == [kind |-> "none", raised |-> FALSE, delivered |-> << >>, escaped |-> FALSE]

Init ==
    /\ now = 0
    /\ state = InitialState(0)
    /\ step_start_times = << >>
    /\ tool_start_times = << >>
    /\ heap = << >>
    /\ callback = "none"
    /\ last = NoCall
    /\ calls = 0
    /\ run = NewRun
    /\ research_jobs = << >>
    /\ parse = NotParsing

\* the variables after a Tracker call with result res
Called(res) ==
    /\ calls < MaxCalls
    /\ calls' = calls + 1
    /\ state' = res.m.state
    /\ step_start_times' = res.m.step_start_times
    /\ tool_start_times' = res.m.tool_start_times
    /\ heap' = res.m.heap
    /\ last' = [kind |-> res.kind, raised |-> res.raised,
                delivered |-> res.delivered, escaped |-> res.escaped]
    /\ UNCHANGED <<now, callback, run, parse, research_jobs>>

\* time passes between two calls
Tick ==
    /\ now < MaxTime
    /\ now' = now + 1
    /\ UNCHANGED <<state, step_start_times, tool_start_times, heap, callback, last, calls,
                   run, parse, research_jobs>>

\* set_callback, before the calls
SetCallback ==
    /\ callback = "none"
    /\ calls = 0
    /\ callback' = "observer"
    /\ UNCHANGED <<now, state, step_start_times, tool_start_times, heap, last, calls,
                   run, parse, research_jobs>>

UpdatePhase ==
    \E raises \in Outcomes, phase \in PhaseArgs,
       progress \in {<< >>} \cup {<< p >> : p \in ProgressArgs} :
        Called(update_phase(Mgr, now, callback, raises, phase, progress))

UpdateProgress ==
    \E raises \in Outcomes, progress \in ProgressArgs :
        Called(update_progress(Mgr, now, callback, raises, progress))

AddPlanningStep ==
    \E raises \in Outcomes, id \in StepIds :
        Called(add_planning_step(Mgr, now, callback, raises,
                                 PlanningStep(id, "pubmed_search")))

\* a caller passes the error text with status "failed"
UpdateStepStatus ==
    \E raises \in Outcomes, id \in StepIds, status \in StatusArgs :
        Called(update_step_status(Mgr, now, callback, raises, id, status,
                                  IF status = "failed" THEN "boom" ELSE None))

UpdateAgentStatus ==
    \E raises \in Outcomes, name \in AgentNames, tool \in {None, "pico_query"} :
        Called(update_agent_status(Mgr, now, callback, raises, name, "running", tool))

AddSubAgent ==
    \E raises \in Outcomes, name \in AgentNames :
        Called(add_sub_agent(Mgr, now, callback, raises, name, "main"))

RemoveSubAgent ==
    \E raises \in Outcomes, name \in AgentNames :
        Called(remove_sub_agent(Mgr, now, callback, raises, name))

\* the caller builds a ToolExecution and registers it
AddToolExecution ==
    \E raises \in Outcomes, tool \in ToolNames, qlen \in QueryLens :
        LET m1 == new_tool_execution(Mgr, now, tool, qlen)
        IN  Called(add_tool_execution(m1, now, callback, raises, Len(m1.heap)))

\* the caller sets the status (and the error) on its ToolExecution and reports it
UpdateToolExecution ==
    \E raises \in Outcomes, e \in 1..Len(heap), status \in ToolStatusValues :
        LET m1 == [Mgr EXCEPT !.heap[e].status = status,
                              !.heap[e].error = IF status = "failed" THEN "boom" ELSE @]
        IN  Called(update_tool_execution(m1, now, callback, raises, e))

Next ==
    \/ Tick
    \/ SetCallback
    \/ UpdatePhase
    \/ UpdateProgress
    \/ AddPlanningStep
    \/ UpdateStepStatus
    \/ UpdateAgentStatus
    \/ AddSubAgent
    \/ RemoveSubAgent
    \/ AddToolExecution
    \/ UpdateToolExecution

Spec == Init /\ [][Next]_vars

\* phases a caller may name: the four that set the main agent's status, the
\* three others the program uses, and a name it does not know
PhaseNames ==
    {"planning", "execution", "synthesis", "complete", "init", "formatting", "error",
     "unknown"}

\* update_phase(phase, message) with any of these phases
UpdateAnyPhase ==
    \E raises \in Outcomes, phase \in PhaseNames :
        Called(update_phase(Mgr, now, callback, raises, phase, << >>))

\* the Tracker driven by a caller that names every phase, at one instant and
\* without an observer
NextPhase ==
    \/ UpdateAnyPhase
    \/ UpdateProgress
    \/ AddPlanningStep
    \/ UpdateStepStatus
    \/ UpdateAgentStatus
    \/ AddSubAgent
    \/ RemoveSubAgent
    \/ AddToolExecution
    \/ UpdateToolExecution

SpecPhase == Init /\ [][NextPhase]_vars

\* the Tracker driven by a caller of its step methods only, with or without an
\* observer, while time passes
NextStepCalls ==
    \/ Tick
    \/ SetCallback
    \/ AddPlanningStep
    \/ UpdateStepStatus

SpecStepCalls == Init /\ [][NextStepCalls]_vars

-----------------------------------------------------------------------------
(* The orchestrator: one analyze_topic on a new DeepAgentResearchSystem.     *)
(* run.pc is the position in analyze_topic; run.i is the 1-based index of    *)
(* the step the loops are at.  The model and search calls are the places     *)
(* where time passes.                                                        *)

IdNames == << "1", "2", "3", "4", "5", "6" >>

\* the steps kept by the orchestrator are the PlanningStep objects it registers
PlanStep(id, action) == [id |-> id, action |-> action]

\* the plan of the except branch of _create_research_plan
default_steps ==
    << PlanStep("1", "pico_query"), PlanStep("2", "pubmed_search"),
       PlanStep("3", "evidence_classification"), PlanStep("4", "synthesis") >>

\* action tags the plan text of the model may carry
PlanActions == {"pico_query", "classify", "unknown"}

\* what _parse_plan returns: steps with ids str(step_id) in increasing order and
\* the tags of their ACTION lines, or the single step of its last line
ParsedPlans ==
    { [k \in 1..n |-> PlanStep(IdNames[k], f[k])] :
        n \in 1..MaxPlan, f \in [1..MaxPlan -> PlanActions] }
    \cup { << PlanStep("1", "pubmed_search") >> }

\* a dispatch table without the short aliases: "pico", "mesh", "search", "pubmed",
\* "evidence", "classify" and "synthesize" take the default
handler_of_full_names(action) ==
    IF action = "pico_query" THEN "pico"
    ELSE IF action = "mesh_mapping" THEN "mesh"
    ELSE IF action = "pubmed_search" THEN "pubmed"
    ELSE IF action = "evidence_classification" THEN "evidence"
    ELSE IF action = "synthesis" THEN "synthesis"
    ELSE "pubmed"

\* action_handlers.get(action, self._execute_pubmed_search)
handler_of(action) ==
    IF action \in {"pico_query", "pico"} THEN "pico"
    ELSE IF action \in {"mesh_mapping", "mesh"} THEN "mesh"
    ELSE IF action \in {"pubmed_search", "search", "pubmed"} THEN "pubmed"
    ELSE IF action \in {"evidence_classification", "evidence", "classify"} THEN "evidence"
    ELSE IF action \in {"synthesis", "synthesize"} THEN "synthesis"
    ELSE "pubmed"

\* the evidence classifier alone is called with the context only
CalledWithQuery(action) ==
    action \notin {"evidence_classification", "evidence", "classify"}

Returns(via, sources) == [raised |-> FALSE, via |-> via, sources |-> sources]
Raises == [raised |-> TRUE, via |-> None, sources |-> 0]

\* handlers without the try around the tool wrapper: what the wrapper raises
\* leaves the handler
HandlerOutcome_ToolRaises(handler, tool_ok, llm_ok, search_ok, hits) ==
    IF handler = "synthesis"
    THEN IF llm_ok THEN Returns("llm", 0) ELSE Raises
    ELSE IF tool_ok THEN Returns("tool", 0) ELSE Raises

\* the five _execute_* handlers: tool_ok says whether the tool wrapper is there
\* and returns (it is missing or raises otherwise), llm_ok and search_ok whether
\* the model call and the raw search return (or raise); hits is the number of
\* dict records the raw search returns
HandlerOutcome(handler, tool_ok, llm_ok, search_ok, hits) ==
    IF handler = "pico" \/ handler = "evidence"
    THEN IF tool_ok THEN Returns("tool", 0)
         ELSE IF llm_ok THEN Returns("llm", 0)
         ELSE Raises
    ELSE IF handler = "mesh"
    THEN IF tool_ok THEN Returns("tool", 0) ELSE Returns("fixed", 0)
    ELSE IF handler = "pubmed"
    THEN IF tool_ok THEN Returns("tool", 0)
         ELSE IF search_ok THEN Returns("search", hits)
         ELSE Returns("fixed", 0)
    ELSE IF llm_ok THEN Returns("llm", 0) ELSE Raises

ResultCounts == {0, 12}

\* query[:100] if len(query) > 100 else query, on the length of the query
QueryPrefix(qlen) == IF qlen > QueryPreviewLimit THEN QueryPreviewLimit ELSE qlen

\* the progress of a loop that counts its steps from 1: enumerate(steps, 1)
step_progress_from_one(i, n) == 20 + (((i + 1) * 60) \div n)

\* 20 + int((i / len(steps)) * 60) for the 0-based index i; the floating-point
\* product truncates to (i * 60) \div n for every plan length up to 199
step_progress(i, n) == 20 + ((i * 60) \div n)

\* what reaches self.progress_callback: a snapshot forwarded by
\* _on_progress_update when it did not raise, and a direct call
Forwarded(res) ==
    IF callback = "_on_progress_update" /\ res.delivered # << >> /\ ~res.raised
    THEN << [progress |-> res.delivered[1].overall_progress,
             phase |-> res.delivered[1].phase, via |-> "tracker"] >>
    ELSE << >>

Direct(progress, phase) ==
    IF callback # "none"
    THEN << [progress |-> progress, phase |-> phase, via |-> "direct"] >>
    ELSE << >>

\* api/main.py, progress_callback: the callback run_research registers writes
\* the progress and the phase it is handed into the job's entry. (A forwarded
\* snapshot also carries active_agents; the entry's lists are left out of the
\* model.)
progress_callback(job, report) ==
    [job EXCEPT !.progress = report.progress, !.phase = report.phase]

\* the entry after the callback took these reports in turn
RECURSIVE progress_callbacks(_, _)
progress_callbacks(job, reports) ==
    IF reports = << >> THEN job
    ELSE progress_callbacks(progress_callback(job, Head(reports)), Tail(reports))

\* what this step hands to the callback reaches the job's entry, when the run is
\* a job of the API
ReportsRecorded ==
    research_jobs' =
        IF research_jobs = << >> THEN << >>
        ELSE << progress_callbacks(
                   research_jobs[1],
                   SubSeq(run'.reported, Len(run.reported) + 1, Len(run'.reported))) >>

\* the variables after a step of the orchestrator that made the Tracker call with
\* result res and leaves the orchestrator as r
RunCall(res, r) ==
    /\ state' = res.m.state
    /\ step_start_times' = res.m.step_start_times
    /\ tool_start_times' = res.m.tool_start_times
    /\ heap' = res.m.heap
    /\ last' = [kind |-> res.kind, raised |-> res.raised,
                delivered |-> res.delivered, escaped |-> res.escaped]
    /\ run' = r
    /\ UNCHANGED <<callback, calls, parse>>
    /\ ReportsRecorded

Tracker == <<state, step_start_times, tool_start_times, heap, last>>

\* _emit_phase(phase, message, progress)
emit_phase(phase, progress, pc) ==
    LET res == update_phase(Mgr, now, callback, FALSE, phase, << >>)
    IN  /\ RunCall(res, [run EXCEPT !.pc = pc,
                                    !.reported = @ \o Forwarded(res) \o Direct(progress, phase)])
        /\ UNCHANGED now

\* set_progress_callback, before the run
SetProgressCallback ==
    /\ run.pc = "new"
    /\ callback = "none"
    /\ callback' = "_on_progress_update"
    /\ UNCHANGED <<now, state, step_start_times, tool_start_times, heap, last, calls,
                   run, parse, research_jobs>>

\* analyze_topic up to the try: the initial progress report
Analyze ==
    /\ run.pc = "new"
    /\ \E qlen \in QueryLens :
          run' = [run EXCEPT !.pc = "plan_phase", !.query = qlen,
                             !.reported = @ \o Direct(5, "init")]
    /\ UNCHANGED <<now, callback, calls, parse>>
    /\ ReportsRecorded
    /\ UNCHANGED Tracker

EmitPhasePlanning ==
    /\ run.pc = "plan_phase"
    /\ emit_phase("planning", 10, "create_plan")

\* a _create_research_plan without its except branch: what the model call or the
\* parser raises reaches analyze_topic
CreatePlan_Propagates ==
    /\ run.pc = "create_plan"
    /\ \E d \in 0..(MaxTime - now), invoke_ok \in BOOLEAN, parse_ok \in BOOLEAN,
          parsed \in ParsedPlans :
          /\ now' = now + d
          /\ run' = IF invoke_ok /\ parse_ok
                    THEN [run EXCEPT !.pc = "register", !.steps = parsed, !.i = 1]
                    ELSE [run EXCEPT !.pc = "except", !.error = "boom",
                                     !.plan_raised = TRUE]
    /\ UNCHANGED <<callback, calls, parse>>
    /\ ReportsRecorded
    /\ UNCHANGED Tracker

\* _create_research_plan up to the registration: the model call and _parse_plan
\* (which raises when response.content is not a str), or, in the except branch,
\* the default plan when one of them raises; plan_raised records which
CreatePlan ==
    /\ run.pc = "create_plan"
    /\ \E d \in 0..(MaxTime - now), invoke_ok \in BOOLEAN, parse_ok \in BOOLEAN,
          parsed \in ParsedPlans :
          /\ now' = now + d
          /\ run' = [run EXCEPT
                       !.pc = "register",
                       !.steps = IF invoke_ok /\ parse_ok THEN parsed ELSE default_steps,
                       !.i = 1,
                       !.plan_raised = ~(invoke_ok /\ parse_ok)]
    /\ UNCHANGED <<callback, calls, parse>>
    /\ ReportsRecorded
    /\ UNCHANGED Tracker

\* one turn of the loop that registers the steps
RegisterStep ==
    /\ run.pc = "register"
    /\ LET step == run.steps[run.i]
           res == add_planning_step(Mgr, now, callback, FALSE,
                                    PlanningStep(step.id, step.action))
       IN  RunCall(res, [run EXCEPT
                           !.i = IF run.i = Len(run.steps) THEN 1 ELSE @ + 1,
                           !.pc = IF run.i = Len(run.steps) THEN "exec_phase" ELSE @])
    /\ UNCHANGED now

EmitPhaseExecution ==
    /\ run.pc = "exec_phase"
    /\ emit_phase("execution", 20, "loop")

\* a loop that looks at the job's entry before each step and leaves when the job
\* was cancelled
StartStep_StopsOnCancel ==
    /\ run.pc = "loop"
    /\ IF research_jobs # << >> /\ research_jobs[1].status = "cancelled"
       THEN /\ run' = [run EXCEPT !.pc = "synth_phase"]
            /\ UNCHANGED <<callback, calls, parse>>
            /\ ReportsRecorded
            /\ UNCHANGED Tracker
       ELSE LET i == run.i
                step == run.steps[i]
                res == update_step_status(Mgr, now, callback, FALSE, step.id,
                                          "in_progress", None)
            IN  RunCall(res, [run EXCEPT
                                !.pc = "track",
                                !.reported = @ \o Forwarded(res)
                                               \o Direct(step_progress(i - 1, Len(run.steps)),
                                                         "execution")])
    /\ UNCHANGED now

\* a loop head that reports the step's progress value without marking the step
\* in_progress
StartStep_LeavesPending ==
    /\ run.pc = "loop"
    /\ run' = [run EXCEPT
                 !.pc = "track",
                 !.reported = @ \o Direct(step_progress(run.i - 1, Len(run.steps)),
                                          "execution")]
    /\ UNCHANGED <<now, callback, calls, parse>>
    /\ ReportsRecorded
    /\ UNCHANGED Tracker

\* the head of the loop of _execute_research_plan: the step is marked in_progress
\* and its progress value is reported
StartStep ==
    /\ run.pc = "loop"
    /\ LET i == run.i
           step == run.steps[i]
           res == update_step_status(Mgr, now, callback, FALSE, step.id, "in_progress", None)
       IN  RunCall(res, [run EXCEPT
                           !.pc = "track",
                           !.reported = @ \o Forwarded(res)
                                          \o Direct(step_progress(i - 1, Len(run.steps)),
                                                    "execution")])
    /\ UNCHANGED now

\* _execute_step: the ToolExecution is built and registered
TrackTool ==
    /\ run.pc = "track"
    /\ LET step == run.steps[run.i]
           m1 == new_tool_execution(Mgr, now, step.action, QueryPrefix(run.query))
           res == add_tool_execution(m1, now, callback, FALSE, Len(m1.heap))
       IN  RunCall(res, [run EXCEPT !.pc = "handler", !.tool_exec = Len(m1.heap)])
    /\ UNCHANGED now

\* accumulated_context, the string that starts as f"Original Query: {query}\n\n"
\* and grows by sections: the query, and the sections added so far in their order
accumulated_context(query, sections) == [query |-> query, sections |-> sections]

\* _execute_step: the handler of the step's action runs, and returns or raises
InvokeHandler ==
    /\ run.pc = "handler"
    /\ \E tool_ok, llm_ok, search_ok \in BOOLEAN, hits \in ResultCounts,
          d \in 0..(MaxTime - now) :
          LET step == run.steps[run.i]
              handler == handler_of(step.action)
          IN  /\ now' = now + d
              /\ run' = [run EXCEPT
                           !.pc = "report",
                           !.outcome = HandlerOutcome(handler, tool_ok, llm_ok, search_ok, hits),
                           !.invoked = Append(@, [step_id |-> step.id, handler |-> handler,
                                                  with_query |-> CalledWithQuery(step.action),
                                                  context |-> accumulated_context(run.query, run.context)])]
    /\ UNCHANGED <<callback, calls, parse>>
    /\ ReportsRecorded
    /\ UNCHANGED Tracker

\* an _execute_step whose except branch raises the exception again without
\* touching the ToolExecution
ReportTool_ForgetsFailure ==
    /\ run.pc = "report"
    /\ LET e == run.tool_exec
           m1 == [Mgr EXCEPT !.heap[e].status = "completed"]
       IN  IF run.outcome.raised
           THEN /\ run' = [run EXCEPT !.pc = "finish_step"]
                /\ UNCHANGED <<callback, calls, parse>>
                /\ ReportsRecorded
                /\ UNCHANGED Tracker
           ELSE RunCall(update_tool_execution(m1, now, callback, FALSE, e),
                        [run EXCEPT !.pc = "finish_step"])
    /\ UNCHANGED now

\* _execute_step: the ToolExecution gets its final status and is reported; the
\* exception of the handler is raised again
ReportTool ==
    /\ run.pc = "report"
    /\ LET e == run.tool_exec
           m1 == IF run.outcome.raised
                 THEN [Mgr EXCEPT !.heap[e].status = "failed", !.heap[e].error = "boom"]
                 ELSE [Mgr EXCEPT !.heap[e].status = "completed"]
           res == update_tool_execution(m1, now, callback, FALSE, e)
       IN  RunCall(res, [run EXCEPT !.pc = "finish_step"])
    /\ UNCHANGED now

\* f"\n## {step.name}\n{result.get('content', '')}\n", what a step that returned
\* adds to accumulated_context; the step's id stands for its name
Section(step, content) == [step_id |-> step.id, content |-> content]

Finding(step, content, sources, error) ==
    [step_id |-> step.id, action |-> step.action, content |-> content,
     sources |-> sources, error |-> error]

\* the orchestrator after the loop body for the step at run.i
AfterStep ==
    [run EXCEPT
       !.pc = IF run.i = Len(run.steps) THEN "synth_phase" ELSE "loop",
       !.i = @ + 1,
       !.tool_exec = 0,
       !.outcome = NoOutcome]

\* the loop body with an except branch that adds the error text to
\* accumulated_context as it adds the content of a step that returned
FinishStep_FailureInContext ==
    /\ run.pc = "finish_step"
    /\ LET step == run.steps[run.i]
           o == run.outcome
       IN  IF ~o.raised
           THEN RunCall(update_step_status(Mgr, now, callback, FALSE, step.id,
                                           "completed", None),
                        [AfterStep EXCEPT
                           !.findings = Append(@, Finding(step, o.via, o.sources, None)),
                           !.context = Append(@, Section(step, o.via)),
                           !.all_links = @ + o.sources])
           ELSE RunCall(update_step_status(Mgr, now, callback, FALSE, step.id,
                                           "failed", None),
                        [AfterStep EXCEPT
                           !.findings = Append(@, Finding(step, "Error", 0, "boom")),
                           !.context = Append(@, Section(step, "Error"))])
    /\ UNCHANGED now

\* the loop body with an except branch that raises the exception again: the
\* failure of a step leaves the loop and reaches the except of analyze_topic
FinishStep_Aborts ==
    /\ run.pc = "finish_step"
    /\ LET step == run.steps[run.i]
           o == run.outcome
       IN  IF ~o.raised
           THEN RunCall(update_step_status(Mgr, now, callback, FALSE, step.id,
                                           "completed", None),
                        [AfterStep EXCEPT
                           !.findings = Append(@, Finding(step, o.via, o.sources, None)),
                           !.context = Append(@, Section(step, o.via)),
                           !.all_links = @ + o.sources])
           ELSE RunCall(update_step_status(Mgr, now, callback, FALSE, step.id,
                                           "failed", None),
                        [AfterStep EXCEPT
                           !.pc = "except",
                           !.error = "boom",
                           !.findings = Append(@, Finding(step, "Error", 0, "boom"))])
    /\ UNCHANGED now

\* the loop body with an except branch that records no finding
FinishStep_DropsFailure ==
    /\ run.pc = "finish_step"
    /\ LET step == run.steps[run.i]
           o == run.outcome
       IN  IF ~o.raised
           THEN RunCall(update_step_status(Mgr, now, callback, FALSE, step.id,
                                           "completed", None),
                        [AfterStep EXCEPT
                           !.findings = Append(@, Finding(step, o.via, o.sources, None)),
                           !.context = Append(@, Section(step, o.via)),
                           !.all_links = @ + o.sources])
           ELSE RunCall(update_step_status(Mgr, now, callback, FALSE, step.id,
                                           "failed", None),
                        AfterStep)
    /\ UNCHANGED now

\* the loop body with a try branch that does not mark the step completed
FinishStep_LeavesInProgress ==
    /\ run.pc = "finish_step"
    /\ LET step == run.steps[run.i]
           o == run.outcome
       IN  IF ~o.raised
           THEN /\ run' = [AfterStep EXCEPT
                             !.findings = Append(@, Finding(step, o.via, o.sources, None)),
                             !.context = Append(@, Section(step, o.via)),
                             !.all_links = @ + o.sources]
                /\ UNCHANGED <<callback, calls, parse>>
                /\ ReportsRecorded
                /\ UNCHANGED <<state, step_start_times, tool_start_times, heap, last>>
           ELSE RunCall(update_step_status(Mgr, now, callback, FALSE, step.id,
                                           "failed", None),
                        [AfterStep EXCEPT
                           !.findings = Append(@, Finding(step, "Error", 0, "boom"))])
    /\ UNCHANGED now

\* the rest of the loop body of _execute_research_plan: the finding of the step,
\* the context and the step's final status, in the try or in its except branch
FinishStep ==
    /\ run.pc = "finish_step"
    /\ LET step == run.steps[run.i]
           o == run.outcome
       IN  IF ~o.raised
           THEN RunCall(update_step_status(Mgr, now, callback, FALSE, step.id,
                                           "completed", None),
                        [AfterStep EXCEPT
                           !.findings = Append(@, Finding(step, o.via, o.sources, None)),
                           !.context = Append(@, Section(step, o.via)),
                           !.all_links = @ + o.sources])
           ELSE RunCall(update_step_status(Mgr, now, callback, FALSE, step.id,
                                           "failed", None),
                        [AfterStep EXCEPT
                           !.findings = Append(@, Finding(step, "Error", 0, "boom"))])
    /\ UNCHANGED now

EmitPhaseSynthesis ==
    /\ run.pc = "synth_phase"
    /\ emit_phase("synthesis", 80, "synthesize")

\* _synthesize_findings: one model call, whose exception leaves the try
Synthesize ==
    /\ run.pc = "synthesize"
    /\ \E llm_ok \in BOOLEAN, d \in 0..(MaxTime - now) :
          /\ now' = now + d
          /\ run' = IF llm_ok
                    THEN [run EXCEPT !.pc = "format_phase"]
                    ELSE [run EXCEPT !.pc = "except", !.error = "boom"]
    /\ UNCHANGED <<callback, calls, parse>>
    /\ ReportsRecorded
    /\ UNCHANGED Tracker

EmitPhaseFormatting ==
    /\ run.pc = "format_phase"
    /\ emit_phase("formatting", 95, "format")

\* the sources of a finding are counted; its x-th source, the title and link of
\* the x-th record the search returned in that step, is told by the step and x
sources_of(finding) ==
    [x \in 1..finding.sources |-> [step_id |-> finding.step_id, index |-> x]]

\* all_sources after the loop that extends it with the sources of each finding
RECURSIVE all_sources(_)
all_sources(findings) ==
    IF findings = << >> THEN << >>
    ELSE sources_of(Head(findings)) \o all_sources(Tail(findings))

SourceLimit == 20

\* a _format_results that lists every source
format_results_unlimited(findings) ==
    LET all == all_sources(findings)
    IN  [sources_section |->
            IF all = << >> THEN << >>
            ELSE << [i \in 1..Len(all) |-> [number |-> i, source |-> all[i]]] >>]

\* _format_results, the "## Sources" section of formatted_findings: << >> when
\* the section is not written, and else the numbered lines of all_sources[:20]
format_results(findings) ==
    LET all == all_sources(findings)
        shown == SubSeq(all, 1, Min(Len(all), SourceLimit))
    IN  [sources_section |->
            IF all = << >> THEN << >>
            ELSE << [i \in 1..Len(shown) |-> [number |-> i, source |-> shown[i]]] >>]

\* _format_results and the final report of analyze_topic, which returns
Finish ==
    /\ run.pc = "format"
    /\ run' = [run EXCEPT !.pc = "done", !.reported = @ \o Direct(100, "complete"),
                          !.formatted = << format_results(run.findings) >>]
    /\ UNCHANGED <<now, callback, calls, parse>>
    /\ ReportsRecorded
    /\ UNCHANGED Tracker

\* an except branch of analyze_topic that starts the Tracker's state over before
\* it reports the failure
Except_ResetsTracker ==
    /\ run.pc = "except"
    /\ run' = [run EXCEPT !.pc = "raised", !.reported = @ \o Direct(0, "error")]
    /\ state' = InitialState(now)
    /\ UNCHANGED <<now, callback, calls, parse, step_start_times, tool_start_times, heap,
                   last>>
    /\ ReportsRecorded

\* the except branch of analyze_topic: the failure is reported and raised again
Except ==
    /\ run.pc = "except"
    /\ run' = [run EXCEPT !.pc = "raised", !.reported = @ \o Direct(0, "error")]
    /\ UNCHANGED <<now, callback, calls, parse>>
    /\ ReportsRecorded
    /\ UNCHANGED Tracker

NextRun ==
    \/ SetProgressCallback
    \/ Analyze
    \/ EmitPhasePlanning
    \/ CreatePlan
    \/ RegisterStep
    \/ EmitPhaseExecution
    \/ StartStep
    \/ TrackTool
    \/ InvokeHandler
    \/ ReportTool
    \/ FinishStep
    \/ EmitPhaseSynthesis
    \/ Synthesize
    \/ EmitPhaseFormatting
    \/ Finish
    \/ Except

SpecRun == Init /\ [][NextRun]_vars

-----------------------------------------------------------------------------
(* calculate_overall_progress called on a Tracker that holds up to MaxSteps  *)
(* steps, each with a status a caller has given it                           *)

MaxSteps == 3

\* the Tracker after the registration of the steps "1", ..., k and an
\* update_step_status(id, f[id]) for each, without an observer
RECURSIVE TrackerWithSteps(_, _)
TrackerWithSteps(f, k) ==
    IF k = 0
    THEN [state |-> InitialState(0), step_start_times |-> << >>,
          tool_start_times |-> << >>, heap |-> << >>]
    ELSE LET m1 == add_planning_step(TrackerWithSteps(f, k - 1), 0, "none", FALSE,
                                     PlanningStep(IdNames[k], "pubmed_search")).m
         IN  update_step_status(m1, 0, "none", FALSE, IdNames[k], f[k], None).m

InitProgress ==
    /\ now = 0
    /\ callback = "none"
    /\ last = NoCall
    /\ calls = 0
    /\ run = NewRun
    /\ parse = NotParsing
    /\ research_jobs = << >>
    /\ \E n \in 0..MaxSteps :
          \E f \in [1..n -> StatusArgs],
             progress \in {<< >>} \cup {<< p >> : p \in ProgressArgs} :
              LET m1 == TrackerWithSteps(f, n)
                  m2 == IF progress = << >> THEN m1
                        ELSE update_progress(m1, 0, "none", FALSE, progress[1]).m
              IN  /\ state = m2.state
                  /\ step_start_times = m2.step_start_times
                  /\ tool_start_times = m2.tool_start_times
                  /\ heap = m2.heap

\* a caller asks for the progress, once
CalculateOverallProgress ==
    /\ last = NoCall
    /\ last' = [kind |-> "calculate_overall_progress", raised |-> FALSE,
                delivered |-> << >>, escaped |-> FALSE,
                returned |-> calculate_overall_progress(Mgr)]
    /\ UNCHANGED <<now, state, step_start_times, tool_start_times, heap, callback,
                   calls, run, parse, research_jobs>>

NextProgress == CalculateOverallProgress

SpecProgress == InitProgress /\ [][NextProgress]_vars

-----------------------------------------------------------------------------
(* One step of a plan: the loop body of _execute_research_plan and           *)
(* _execute_step for a plan of one step with any action tag, from the state  *)
(* analyze_topic is in when the loop begins                                   *)

\* the keys of action_handlers and two tags that are not among them
ActionTags ==
    {"pico_query", "pico", "mesh_mapping", "mesh", "pubmed_search", "search", "pubmed",
     "evidence_classification", "evidence", "classify", "synthesis", "synthesize",
     "unknown", "review"}

\* the Tracker after _emit_phase("planning"), the registration of the one step
\* and _emit_phase("execution"), without an observer
PlannedTracker(action) ==
    LET m0 == [state |-> InitialState(0), step_start_times |-> << >>,
               tool_start_times |-> << >>, heap |-> << >>]
        m1 == update_phase(m0, 0, "none", FALSE, "planning", << >>).m
        m2 == add_planning_step(m1, 0, "none", FALSE, PlanningStep("1", action)).m
    IN  update_phase(m2, 0, "none", FALSE, "execution", << >>)

InitStep ==
    /\ now = 0
    /\ callback = "none"
    /\ calls = 0
    /\ parse = NotParsing
    /\ research_jobs = << >>
    /\ \E action \in ActionTags, qlen \in QueryLens :
          LET res == PlannedTracker(action)
          IN  /\ state = res.m.state
              /\ step_start_times = res.m.step_start_times
              /\ tool_start_times = res.m.tool_start_times
              /\ heap = res.m.heap
              /\ last = [kind |-> res.kind, raised |-> res.raised,
                         delivered |-> res.delivered, escaped |-> res.escaped]
              /\ run = [NewRun EXCEPT !.pc = "loop", !.query = qlen,
                                      !.steps = << PlanStep("1", action) >>, !.i = 1]

NextStep ==
    \/ StartStep
    \/ TrackTool
    \/ InvokeHandler
    \/ ReportTool
    \/ FinishStep

SpecStep == InitStep /\ [][NextStep]_vars

-----------------------------------------------------------------------------
(* api/main.py: one research job.  start_research creates the entry and      *)
(* schedules run_research, which builds a DeepAgentResearchSystem, registers  *)
(* its callback and calls analyze_topic; cancel_research may be served at any *)
(* moment.  After run_research has returned, run.pc is "returned".            *)

\* the entry start_research stores; result and error are None
NewJob ==
    [status |-> "pending", progress |-> 0, phase |-> "queued", result |-> None,
     error |-> None]

NotJob == <<now, state, step_start_times, tool_start_times, heap, last, calls, parse>>

\* POST /research
StartResearch ==
    /\ research_jobs = << >>
    /\ run.pc = "new"
    /\ research_jobs' = << NewJob >>
    /\ UNCHANGED <<run, callback>>
    /\ UNCHANGED NotJob

\* run_research up to the call of analyze_topic: the imports may fail, and
\* get_llm or a constructor may raise, which the outer except records
RunResearch ==
    /\ research_jobs # << >>
    /\ run.pc = "new"
    /\ callback = "none"
    /\ \E import_ok \in BOOLEAN, llm_ok \in BOOLEAN :
          LET running == [research_jobs[1] EXCEPT !.status = "running",
                                                  !.phase = "initializing"]
          IN  IF ~import_ok
              THEN /\ research_jobs' = << [running EXCEPT !.status = "failed",
                                                          !.error = "Import error"] >>
                   /\ run' = [run EXCEPT !.pc = "returned"]
                   /\ UNCHANGED callback
              ELSE IF ~llm_ok
              THEN /\ research_jobs' = << [running EXCEPT !.status = "failed",
                                                          !.error = "boom",
                                                          !.phase = "error"] >>
                   /\ run' = [run EXCEPT !.pc = "returned"]
                   /\ UNCHANGED callback
              ELSE /\ research_jobs' = << running >>
                   /\ callback' = "_on_progress_update"
                   /\ UNCHANGED run
    /\ UNCHANGED NotJob

\* run_research calls analyze_topic
AnalyzeTopic ==
    /\ research_jobs # << >>
    /\ callback = "_on_progress_update"
    /\ Analyze

\* a run_research that returns after analyze_topic without writing to the entry
CompleteResearch_KeepsRunning ==
    /\ research_jobs # << >>
    /\ run.pc = "done"
    /\ run' = [run EXCEPT !.pc = "returned"]
    /\ UNCHANGED <<research_jobs, callback>>
    /\ UNCHANGED NotJob

\* analyze_topic returned: the result is stored
CompleteResearch ==
    /\ research_jobs # << >>
    /\ run.pc = "done"
    /\ research_jobs' = << [research_jobs[1] EXCEPT !.status = "completed",
                                                   !.progress = 100,
                                                   !.phase = "complete",
                                                   !.result = "formatted_findings"] >>
    /\ run' = [run EXCEPT !.pc = "returned"]
    /\ UNCHANGED callback
    /\ UNCHANGED NotJob

\* analyze_topic raised: the outer except of run_research
FailResearch ==
    /\ research_jobs # << >>
    /\ run.pc = "raised"
    /\ research_jobs' = << [research_jobs[1] EXCEPT !.status = "failed",
                                                   !.error = run.error,
                                                   !.phase = "error"] >>
    /\ run' = [run EXCEPT !.pc = "returned"]
    /\ UNCHANGED callback
    /\ UNCHANGED NotJob

\* DELETE /research/{research_id}
CancelResearch ==
    /\ research_jobs # << >>
    /\ research_jobs' = << [research_jobs[1] EXCEPT !.status = "cancelled",
                                                   !.phase = "cancelled"] >>
    /\ UNCHANGED <<run, callback>>
    /\ UNCHANGED NotJob

NextJob ==
    \/ StartResearch
    \/ RunResearch
    \/ CancelResearch
    \/ AnalyzeTopic
    \/ EmitPhasePlanning
    \/ CreatePlan
    \/ RegisterStep
    \/ EmitPhaseExecution
    \/ StartStep
    \/ TrackTool
    \/ InvokeHandler
    \/ ReportTool
    \/ FinishStep
    \/ EmitPhaseSynthesis
    \/ Synthesize
    \/ EmitPhaseFormatting
    \/ Finish
    \/ Except
    \/ CompleteResearch
    \/ FailResearch

SpecJob == Init /\ [][NextJob]_vars

\* the steps of the background task run_research
RunSteps ==
    \/ RunResearch
    \/ AnalyzeTopic
    \/ EmitPhasePlanning
    \/ CreatePlan
    \/ RegisterStep
    \/ EmitPhaseExecution
    \/ StartStep
    \/ TrackTool
    \/ InvokeHandler
    \/ ReportTool
    \/ FinishStep
    \/ EmitPhaseSynthesis
    \/ Synthesize
    \/ EmitPhaseFormatting
    \/ Finish
    \/ Except
    \/ CompleteResearch
    \/ FailResearch

\* run_research has a statement to go on with: the job is stored and the task
\* has not returned.  In every state of SpecJob this is ENABLED <<RunSteps>>_vars
RunEnabled == research_jobs # << >> /\ run.pc # "returned"

RunEnabledIsEnabled == RunEnabled <=> ENABLED <<RunSteps>>_vars

\* weak fairness of the task, WF_vars(RunSteps) written out with RunEnabled for
\* its ENABLED: the task start_research has scheduled is run, and it goes on from
\* each statement to the next, since every model and search call returns or raises
\* and the loops of the run are over the steps of the plan
RunFairness == []<>(~RunEnabled) \/ []<><<RunSteps>>_vars

\* a server started at the last instant of the model's clock: the calls of the
\* run take no time the clock can measure, which leaves every order of the
\* statements and of the requests as it is
InitLate ==
    /\ now = MaxTime
    /\ state = InitialState(MaxTime)
    /\ step_start_times = << >>
    /\ tool_start_times = << >>
    /\ heap = << >>
    /\ callback = "none"
    /\ last = NoCall
    /\ calls = 0
    /\ run = NewRun
    /\ research_jobs = << >>
    /\ parse = NotParsing

SpecJobLive == InitLate /\ [][NextJob]_vars /\ RunFairness

-----------------------------------------------------------------------------
(* _parse_plan.  A string is a sequence of tokens: " " and "\n" are the      *)
(* whitespace, ":" is the colon, and every other token is a word.  The str   *)
(* methods the parser uses work on the tokens as Python's work on            *)
(* characters.                                                               *)

MaxLines == 4

Whitespace == {" ", "\n"}

\* str.lstrip(), str.rstrip(), str.strip()
RECURSIVE lstrip(_)
lstrip(s) == IF s # << >> /\ Head(s) \in Whitespace THEN lstrip(Tail(s)) ELSE s

RECURSIVE rstrip(_)
rstrip(s) ==
    IF s # << >> /\ s[Len(s)] \in Whitespace THEN rstrip(SubSeq(s, 1, Len(s) - 1)) ELSE s

strip(s) == rstrip(lstrip(s))

\* str.startswith(prefix)
startswith(s, prefix) ==
    Len(s) >= Len(prefix) /\ SubSeq(s, 1, Len(prefix)) = prefix

\* index of the first occurrence of the token sep in s, 0 when there is none
find(s, sep) == FirstIndex({i \in 1..Len(s) : s[i] = sep})

\* str.split(sep): the pieces between the separators, one piece for no separator
RECURSIVE split(_, _)
split(s, sep) ==
    LET i == find(s, sep)
    IN  IF i = 0 THEN << s >>
        ELSE << SubSeq(s, 1, i - 1) >> \o split(SubSeq(s, i + 1, Len(s)), sep)

\* str.split(sep, 1): at most one split, at the first separator
split_once(s, sep) ==
    LET i == find(s, sep)
    IN  IF i = 0 THEN << s >>
        ELSE << SubSeq(s, 1, i - 1), SubSeq(s, i + 1, Len(s)) >>

\* str.replace(old, ''): every occurrence of old is removed, from the left
RECURSIVE remove(_, _)
remove(s, old) ==
    IF s = << >> THEN << >>
    ELSE IF startswith(s, old) THEN remove(SubSeq(s, Len(old) + 1, Len(s)), old)
    ELSE << Head(s) >> \o remove(Tail(s), old)

\* str.lower() on one token and on a string
lower_token(w) ==
    CASE w = "STEP" -> "step"
      [] w = "ACTION" -> "action"
      [] w = "Plan" -> "plan"
      [] w = "PubMed_Search" -> "pubmed_search"
      [] OTHER -> w

lower(s) == [i \in 1..Len(s) |-> lower_token(s[i])]

\* str(step_id)
str(n) == IdNames[n]

\* the dict of the step a STEP line opened, and the PlanningStep built from it
ParsedStep(id, name, action) == [id |-> id, name |-> name, action |-> action]

\* the locals of _parse_plan before its loop; current_step is << >> for None and
\* << d >> for the dict d
ParserStart == [steps |-> << >>, current_step |-> << >>, step_id |-> 0]

\* a loop body that splits the STEP line at every colon, line.split(':'), and
\* takes the second piece as the name
parse_line_splits_all(p, raw) ==
    LET line == strip(raw)
    IN  IF startswith(line, << "STEP" >>)
        THEN LET id == p.step_id + 1
                 parts == split(line, ":")
                 name == IF Len(parts) > 1 THEN strip(parts[2])
                         ELSE << "Step", " ", str(id) >>
             IN  [p EXCEPT !.step_id = id,
                           !.current_step = << ParsedStep(str(id), name, << "unknown" >>) >>]
        ELSE IF startswith(line, << "ACTION", ":" >>) /\ p.current_step # << >>
        THEN LET action == lower(strip(remove(line, << "ACTION", ":" >>)))
             IN  [p EXCEPT !.steps = Append(@, [p.current_step[1] EXCEPT !.action = action]),
                           !.current_step = << >>]
        ELSE p

\* the body of the loop of _parse_plan on one line
parse_line(p, raw) ==
    LET line == strip(raw)
    IN  IF startswith(line, << "STEP" >>)
        THEN LET id == p.step_id + 1
                 parts == split_once(line, ":")
                 name == IF Len(parts) > 1 THEN strip(parts[2])
                         ELSE << "Step", " ", str(id) >>
             IN  [p EXCEPT !.step_id = id,
                           !.current_step = << ParsedStep(str(id), name, << "unknown" >>) >>]
        ELSE IF startswith(line, << "ACTION", ":" >>) /\ p.current_step # << >>
        THEN LET action == lower(strip(remove(line, << "ACTION", ":" >>)))
             IN  [p EXCEPT !.steps = Append(@, [p.current_step[1] EXCEPT !.action = action]),
                           !.current_step = << >>]
        ELSE p

\* a _parse_plan that returns the parsed steps as they are
parse_result_as_parsed(p) ==
    IF p.current_step # << >> THEN Append(p.steps, p.current_step[1]) ELSE p.steps

\* a _parse_plan whose fallback step carries the alias "search"
parse_result_search_alias(p) ==
    LET steps == IF p.current_step # << >> THEN Append(p.steps, p.current_step[1])
                 ELSE p.steps
    IN  IF steps # << >> THEN steps
        ELSE << ParsedStep("1", << "Analyze", " ", "query" >>, << "search" >>) >>

\* the end of _parse_plan: the step left open is appended, and a result without
\* steps is replaced by the one step "Analyze query"
parse_result(p) ==
    LET steps == IF p.current_step # << >> THEN Append(p.steps, p.current_step[1])
                 ELSE p.steps
    IN  IF steps # << >> THEN steps
        ELSE << ParsedStep("1", << "Analyze", " ", "query" >>, << "pubmed_search" >>) >>

\* lines the model's answer may hold: a STEP line with a name that has a colon
\* in it, a STEP line without a colon, ACTION lines (one indented, in mixed case
\* and without a space after the colon), a blank line and other text
StepLine == << "STEP", " ", "1", ":", " ", "Build", ":", "PICO", " " >>
BareStepLine == << "STEP", " ", "2" >>
ActionLine == << "ACTION", ":", " ", "pico_query" >>
IndentedActionLine == << " ", "ACTION", ":", "PubMed_Search", " " >>
BlankLine == << >>
OtherLine == << "Plan", ":" >>

PlanLines ==
    {StepLine, BareStepLine, ActionLine, IndentedActionLine, BlankLine, OtherLine}

\* "\n".join(lines)
RECURSIVE join(_)
join(ls) ==
    IF ls = << >> THEN << >>
    ELSE IF Len(ls) = 1 THEN ls[1]
    ELSE ls[1] \o << "\n" >> \o join(Tail(ls))

\* the plan texts: up to MaxLines of the lines above, the empty string among them
PlanTexts ==
    { join(ls) : ls \in UNION { [1..n -> PlanLines] : n \in 0..MaxLines } }

\* _parse_plan(plan_text) at its entry; closed is the set of ids of the steps an
\* ACTION line has closed so far
ParseCall(plan_text) ==
    [pc |-> "called", plan_text |-> plan_text, lines |-> << >>,
     steps |-> << >>, current_step |-> << >>, step_id |-> 0,
     closed |-> {}, result |-> << >>]

InitParse ==
    /\ now = 0
    /\ state = InitialState(0)
    /\ step_start_times = << >>
    /\ tool_start_times = << >>
    /\ heap = << >>
    /\ callback = "none"
    /\ last = NoCall
    /\ calls = 0
    /\ run = NewRun
    /\ research_jobs = << >>
    /\ \E plan_text \in PlanTexts : parse = ParseCall(plan_text)

NotParser ==
    <<now, state, step_start_times, tool_start_times, heap, callback, last, calls, run,
      research_jobs>>

\* plan_text.strip().split('\n') and the initial values of the locals
ParseStart ==
    /\ parse.pc = "called"
    /\ parse' = [parse EXCEPT
                   !.pc = "loop",
                   !.lines = split(strip(parse.plan_text), "\n"),
                   !.steps = ParserStart.steps,
                   !.current_step = ParserStart.current_step,
                   !.step_id = ParserStart.step_id]
    /\ UNCHANGED NotParser

\* one turn of the loop
ParseLine ==
    /\ parse.pc = "loop"
    /\ parse.lines # << >>
    /\ LET p == parse_line(parse, Head(parse.lines))
       IN  parse' = [p EXCEPT
                       !.lines = Tail(@),
                       !.closed = IF Len(p.steps) > Len(parse.steps)
                                  THEN @ \cup {parse.current_step[1].id}
                                  ELSE @]
    /\ UNCHANGED NotParser

\* the end of the loop: _parse_plan returns
ParseReturn ==
    /\ parse.pc = "loop"
    /\ parse.lines = << >>
    /\ parse' = [parse EXCEPT !.pc = "done", !.result = parse_result(parse)]
    /\ UNCHANGED NotParser

NextParse ==
    \/ ParseStart
    \/ ParseLine
    \/ ParseReturn

SpecParse == InitParse /\ [][NextParse]_vars

-----------------------------------------------------------------------------
(* Claims about the Tracker, checked under Spec *)

Steps == state.planning_steps
Agents == state.active_agents

\* C1: after any sequence of Tracker calls, with any integer progress arguments,
\* overall_progress is within 0..100
C1_ProgressInRange == state.overall_progress \in 0..100

\* a status change the step life cycle allows: none, pending -> in_progress,
\* in_progress -> completed, failed or skipped
AllowedStepMove(a, b) ==
    \/ a = b
    \/ a = "pending" /\ b = "in_progress"
    \/ a = "in_progress" /\ b \in {"completed", "failed", "skipped"}

\* C2: every update_step_status call moves a registered step's status only along
\* pending -> in_progress -> {completed, failed, skipped}
C2_StatusTransitions ==
    [][\A i \in 1..Len(Steps) :
          AllowedStepMove(Steps[i].status.value, state'.planning_steps[i].status.value)]_vars

\* C3: a step's duration_ms is null while the step is pending or in_progress and a
\* non-negative integer once it is completed, failed or skipped
C3_DurationMatchesStatus ==
    \A i \in 1..Len(Steps) :
        /\ Steps[i].status.value \in {"pending", "in_progress"}
              => Steps[i].duration_ms = NoTime
        /\ Steps[i].status.value \in {"completed", "failed", "skipped"}
              => Steps[i].duration_ms >= 0

\* C4: an agent named "main" is present in active_agents after construction and
\* after any sequence of Tracker calls
C4_MainAgentPresent == \E i \in 1..Len(Agents) : Agents[i].name = "main"

\* C5: no two agents in active_agents share a name
C5_AgentNamesUnique ==
    \A i, j \in 1..Len(Agents) : i # j => Agents[i].name # Agents[j].name

\* C6: a mutating call with an observer registered hands the observer exactly one
\* snapshot, and that snapshot is the serialization of the state the call leaves
C6_OneSnapshotOfFinalState ==
    (last.kind = "mutation" /\ callback # "none") =>
        /\ Len(last.delivered) = 1
        /\ last.delivered[1] = to_dict(Mgr)

\* a call that registered a tool execution while a step was registered, observed
C6_Witness ==
    /\ last.kind = "mutation"
    /\ callback = "observer"
    /\ Len(last.delivered) = 1
    /\ Len(state.tool_executions) = 1
    /\ Len(Steps) = 1
    /\ state.updated_at = 1

\* C7: when the observer raises during a mutating call, no exception leaves the
\* call and the state after the call is the fully changed state, the one whose
\* snapshot the observer was handed before it raised
C7_ObserverFailureContained ==
    last.raised =>
        /\ ~last.escaped
        /\ last.kind = "mutation"
        /\ last.delivered = << to_dict(Mgr) >>

\* the observer raised during an update_progress(150) that was clamped to 100
C7_Witness ==
    /\ last.raised
    /\ state.overall_progress = 100
    /\ state.updated_at = 1

-----------------------------------------------------------------------------
(* Claims about the orchestrator, checked under SpecRun *)

\* _execute_research_plan has returned, or analyze_topic has left the try after it
ExecutionReturned ==
    run.pc \in {"synth_phase", "synthesize", "format_phase", "format", "done",
                "except", "raised"}

InExecution == run.pc \in {"loop", "track", "handler", "report", "finish_step"}

HandlerInvoked(id) == \E j \in 1..Len(run.invoked) : run.invoked[j].step_id = id

\* the Tracker's record of the k-th step of the plan was marked in_progress and
\* has ended completed or failed
StepHandled(k) ==
    /\ k <= Len(Steps)
    /\ Steps[k].id = run.steps[k].id
    /\ Steps[k].started_at # NoTime
    /\ Steps[k].status.value \in {"completed", "failed"}
    /\ HandlerInvoked(run.steps[k].id)

\* C8: when the handler of a step raises, the loop goes on: once execution has
\* ended, every later step was marked in_progress, had its handler invoked and is
\* completed or failed; and nothing ends execution before the last step
C8_FailureDoesNotAbort ==
    /\ \A j \in 1..Len(run.findings) :
          (run.findings[j].error # None /\ ~InExecution) =>
              \A k \in (j + 1)..Len(run.steps) : StepHandled(k)
    /\ ExecutionReturned => Len(run.invoked) = Len(run.steps)

\* the first of two or more steps failed and the last one completed
C8_Witness ==
    /\ ExecutionReturned
    /\ Len(run.steps) >= 2
    /\ run.findings[1].error # None
    /\ StepHandled(Len(run.steps))
    /\ Steps[Len(run.steps)].status.value = "completed"

\* C9: the findings hold one finding per step, in the order of the steps: during
\* the loop one for each step already executed, and all of them when it returns
C9_OneFindingPerStep ==
    /\ InExecution => Len(run.findings) = run.i - 1
    /\ ExecutionReturned => Len(run.findings) = Len(run.steps)
    /\ \A k \in 1..Len(run.findings) :
          k <= Len(run.steps) /\ run.findings[k].step_id = run.steps[k].id

\* the default plan ran to the end with a failure followed by a success
C9_Witness ==
    /\ run.pc = "done"
    /\ Len(run.findings) = 4
    /\ run.findings[1].error # None
    /\ run.findings[2].error = None
    /\ run.findings[4].error # None

\* C10: at most one step is in_progress, and a step has left pending only if the
\* step before it is completed or failed
C10_Sequential ==
    /\ Cardinality({k \in 1..Len(Steps) : Steps[k].status.value = "in_progress"}) <= 1
    /\ \A k \in 1..(Len(Steps) - 1) :
          Steps[k + 1].status.value # "pending" =>
              Steps[k].status.value \in {"completed", "failed"}

\* the second step is in_progress after the first one failed
C10_Witness ==
    /\ run.pc = "handler"
    /\ run.i = 2
    /\ Steps[1].status.value = "failed"
    /\ Steps[2].status.value = "in_progress"

\* the tool execution registered for the k-th executed step: _execute_step builds
\* one ToolExecution per step, so the k-th object of the heap
ToolOfStep(k) == heap[k]

\* C11: when the handler of a step raised, the Tracker's record of the step has
\* status failed and carries the error text, and the step's tool execution has
\* status failed and carries the error text
C11_FailureRecorded ==
    \A k \in 1..Len(run.findings) :
        run.findings[k].error # None =>
            /\ Steps[k].status.value = "failed"
            /\ Steps[k].error = run.findings[k].error
            /\ ToolOfStep(k).status = "failed"
            /\ ToolOfStep(k).error = run.findings[k].error

\* C12: when the synthesis raises and analyze_topic raises the exception again,
\* the Tracker's phase is "error" and the last snapshot the Tracker handed to its
\* observer has phase "error"
C12_ErrorPhaseEmitted ==
    run.pc = "raised" =>
        /\ run.error # None
        /\ state.phase = "error"
        /\ callback # "none" =>
              /\ last.delivered # << >>
              /\ last.delivered[1].phase = "error"

\* C13: while a callback is registered through set_progress_callback, every
\* snapshot the Tracker emits reaches it: _on_progress_update is handed the
\* snapshot and returns after it called the external callback, also once the
\* plan's steps are registered
C13_SnapshotsForwarded ==
    (callback = "_on_progress_update" /\ last.kind = "mutation") =>
        /\ Len(last.delivered) = 1
        /\ ~last.raised

\* C14: a step that is completed stays completed in the Tracker state and in the
\* snapshot of that state, through every later step of the run: a later step
\* failing, the synthesis raising, the except branch of analyze_topic
C14_CompletedRetained ==
    [][\A k \in 1..Len(Steps) :
          Steps[k].status.value = "completed" =>
              /\ k <= Len(state'.planning_steps)
              /\ state'.planning_steps[k].id = Steps[k].id
              /\ state'.planning_steps[k].status.value = "completed"
              /\ to_dict(Mgr)'.planning_steps[k].status = "completed"
              /\ last'.delivered # << >> =>
                    last'.delivered[1].planning_steps[k].status = "completed"]_vars

\* the first step completed, the second failed, the synthesis raised and
\* analyze_topic raised the exception again
C14_Witness ==
    /\ run.pc = "raised"
    /\ Len(Steps) >= 2
    /\ Steps[1].status.value = "completed"
    /\ Steps[2].status.value = "failed"
    /\ to_dict(Mgr).planning_steps[1].status = "completed"

\* the number of steps whose tool execution _execute_step has registered
TrackedSteps ==
    IF run.pc \in {"handler", "report", "finish_step"} THEN run.i
    ELSE IF run.pc \in {"loop", "track"} THEN run.i - 1
    ELSE IF ExecutionReturned THEN Len(run.steps)
    ELSE 0

\* the tool execution of the step at run.i is registered, running and not yet
\* updated, and the step is in_progress
ToolRunning ==
    /\ run.tool_exec = run.i
    /\ state.tool_executions[Len(state.tool_executions)] = run.tool_exec
    /\ ToolOfStep(run.i).status = "running"
    /\ ToolOfStep(run.i).completed_at = NoTime
    /\ Steps[run.i].status.value = "in_progress"

\* C15: one tool execution per executed step, with the step's action tag,
\* registered as running after the step is marked in_progress and before its handler
\* is invoked; the record is updated once, after the handler, to completed if the
\* handler returned and to failed if it raised, while the step is still
\* in_progress; no record changes at another point, so none is updated before it
\* is registered or a second time
C15_ToolExecutionOrder ==
    [][/\ Len(heap') = TrackedSteps'
       /\ Len(state'.tool_executions) = TrackedSteps'
       /\ \A k \in 1..Len(heap') : heap'[k].tool = run'.steps[k].action
       /\ run'.pc = "track" =>
             /\ Steps'[run'.i].status.value = "in_progress"
             /\ Len(run'.invoked) = run'.i - 1
       /\ run'.pc = "handler" => ToolRunning' /\ Len(run'.invoked) = run'.i - 1
       /\ run'.pc = "report" => ToolRunning' /\ Len(run'.invoked) = run'.i
       /\ run'.pc = "finish_step" =>
             /\ heap'[run'.i].status =
                   (IF run'.outcome.raised THEN "failed" ELSE "completed")
             /\ heap'[run'.i].completed_at # NoTime
             /\ Steps'[run'.i].status.value = "in_progress"
       /\ \A k \in 1..Len(run'.findings) :
             ToolOfStep(k)'.status =
                 (IF run'.findings[k].error # None THEN "failed" ELSE "completed")
       /\ \A k \in 1..Len(heap) :
             heap'[k] # heap[k] =>
                 /\ run.pc = "report"
                 /\ k = run.tool_exec
                 /\ heap[k].status = "running"
                 /\ heap'[k].status # "running"]_vars

\* the second step's handler raised: its tool execution is failed and the step is
\* still in_progress, after a first step whose tool execution is completed
C15_Witness ==
    /\ run.pc = "finish_step"
    /\ run.i = 2
    /\ run.outcome.raised
    /\ ToolOfStep(1).status = "completed"
    /\ ToolOfStep(2).status = "failed"
    /\ ToolOfStep(2).tool = run.steps[2].action
    /\ Steps[2].status.value = "in_progress"

\* the latest report that reached the external callback
LastReported(r) == r.reported[Len(r.reported)]

\* the documented values for a plan of four steps
FourStepProgress == << 20, 35, 50, 65 >>

\* C16: when the step at 0-based index i of n starts, the external callback is
\* handed the progress value v with v - 20 the integer part of i * 60 / n; v is
\* within 20..79 and not below the value reported before it, and for n = 4 the
\* values are 20, 35, 50, 65
C16_StepProgress ==
    [][(run.pc = "loop" /\ run'.pc = "track" /\ callback # "none") =>
          LET n == Len(run.steps)
              i == run.i - 1
              v == LastReported(run').progress
          IN  /\ Len(run'.reported) = Len(run.reported) + 1
              /\ LastReported(run').via = "direct"
              /\ LastReported(run').phase = "execution"
              /\ (v - 20) * n <= i * 60
              /\ i * 60 < (v - 20 + 1) * n
              /\ v \in 20..79
              /\ v >= LastReported(run).progress
              /\ n = 4 => v = FourStepProgress[i + 1]]_vars

\* the fourth step of the default plan has started and 65 was reported
C16_Witness ==
    /\ run.pc = "track"
    /\ callback # "none"
    /\ Len(run.steps) = 4
    /\ run.i = 4
    /\ LastReported(run).progress = 65

-----------------------------------------------------------------------------
(* Claims about _parse_plan, checked under SpecParse *)

\* C17: _parse_plan returns a list with at least one step, whatever the text
C17_NonEmptyResult ==
    parse.pc = "done" => Len(parse.result) >= 1

\* the parser returned for the empty string, and for an ACTION line no STEP line
\* precedes
C17_Witness ==
    /\ parse.pc = "done"
    /\ parse.plan_text \in {<< >>, ActionLine}
    /\ parse.steps = << >>
    /\ Len(parse.result) = 1

\* a STEP line followed by an ACTION line, with the name and the action tag the
\* pair stands for: the text after the first colon of the STEP line, and the
\* ACTION remainder trimmed and in lower case
WellFormedPairs ==
    { [step |-> StepLine, act |-> ActionLine,
       name |-> << "Build", ":", "PICO" >>, action |-> << "pico_query" >>],
      [step |-> StepLine, act |-> IndentedActionLine,
       name |-> << "Build", ":", "PICO" >>, action |-> << "pubmed_search" >>] }

\* the text made of the pairs f[1], ..., f[n]
PairText(f) ==
    join([k \in 1..(2 * Len(f)) |->
            IF k % 2 = 1 THEN f[(k + 1) \div 2].step ELSE f[k \div 2].act])

\* the steps the pairs stand for, with the ids "1", ..., "n"
PairSteps(f) ==
    [k \in 1..Len(f) |-> [id |-> IdNames[k], name |-> f[k].name, action |-> f[k].action]]

\* C18: for a text of n >= 1 well-formed pairs the parser returns n steps in the
\* order of the pairs, with ids "1".."n", each with the name after the first colon
\* of its STEP line and the trimmed, lower-cased remainder of its ACTION line
C18_WellFormedPairs ==
    parse.pc = "done" =>
        \A n \in 1..(MaxLines \div 2) :
            \A f \in [1..n -> WellFormedPairs] :
                parse.plan_text = PairText(f) => parse.result = PairSteps(f)

\* two pairs, pico_query then PubMed_Search, were parsed
C18_Witness ==
    /\ parse.pc = "done"
    /\ parse.plan_text =
          join(<< StepLine, ActionLine, StepLine, IndentedActionLine >>)
    /\ Len(parse.result) = 2
    /\ parse.result[1].action = << "pico_query" >>
    /\ parse.result[2].action = << "pubmed_search" >>

\* C19: every step a STEP line opened and no ACTION line closed is in the result
\* with the action "unknown", wherever its STEP line stands in the text
C19_OpenStepsKept ==
    parse.pc = "done" =>
        \A k \in 1..parse.step_id :
            str(k) \notin parse.closed =>
                \E j \in 1..Len(parse.result) :
                    /\ parse.result[j].id = str(k)
                    /\ parse.result[j].action = << "unknown" >>

\* C20: when the text yields no step, the plan is the four-step default: build
\* PICO query, search, classify evidence, synthesize
C20_DefaultPlanOnNoSteps ==
    (parse.pc = "done" /\ parse.steps = << >> /\ parse.current_step = << >>) =>
        /\ Len(parse.result) = Len(default_steps)
        /\ \A k \in 1..Len(parse.result) :
              /\ parse.result[k].id = default_steps[k].id
              /\ parse.result[k].action = << default_steps[k].action >>

\* the text has a line that, trimmed as the parser trims it, begins with STEP
HasStepLine(plan_text) ==
    LET lines == split(plan_text, "\n")
    IN  \E k \in 1..Len(lines) : startswith(strip(lines[k]), << "STEP" >>)

\* C21 as stated: for a non-empty text without a line beginning with STEP the
\* parser returns exactly one step, and its action tag is "search"
C21_FallbackIsSearch ==
    (parse.pc = "done" /\ parse.plan_text # << >> /\ ~HasStepLine(parse.plan_text)) =>
        /\ Len(parse.result) = 1
        /\ parse.result[1].action = << "search" >>

\* C21, amended: for a non-empty text without a line beginning with STEP the
\* parser returns exactly one step, with id "1", the name "Analyze query" and the
\* action tag "pubmed_search"
C21_FallbackIsPubmedSearch ==
    (parse.pc = "done" /\ parse.plan_text # << >> /\ ~HasStepLine(parse.plan_text)) =>
        parse.result =
            << ParsedStep("1", << "Analyze", " ", "query" >>, << "pubmed_search" >>) >>

\* the parser returned for a text of two lines, other text and an ACTION line,
\* neither beginning with STEP
C21_Witness ==
    /\ parse.pc = "done"
    /\ parse.plan_text = join(<< OtherLine, ActionLine >>)
    /\ Len(parse.result) = 1

-----------------------------------------------------------------------------
(* Claims about the Tracker, continued; checked under Spec, and C24 under   *)
(* SpecPhase                                                                 *)

\* the caller sets the status (and the error) on its ToolExecution e and calls
\* update_tool_execution(e) in the present state
ReportedAs(e, status, raises) ==
    update_tool_execution(
        [Mgr EXCEPT !.heap[e].status = status,
                    !.heap[e].error = IF status = "failed" THEN "boom" ELSE @],
        now, callback, raises, e)

\* C23: update_tool_execution(e) with the status completed or failed, for an e that
\* add_tool_execution registered, sets the main agent's current_tool to None when
\* it names e's tool and leaves it as it is when it names another tool
C23_CurrentToolCleared ==
    \A e \in 1..Len(heap), status \in {"completed", "failed"}, raises \in Outcomes :
        LET main == get_main_agent(Mgr)
            before == Agents[main].current_tool
            after == ReportedAs(e, status, raises).m.state.active_agents
        IN  main # 0 =>
                /\ Len(after) = Len(Agents)
                /\ after[main].current_tool =
                      IF before = heap[e].tool THEN None ELSE before

\* two tools were registered and the first was reported completed: the main
\* agent still names the second
C23_Witness ==
    /\ Len(heap) = 2
    /\ heap[1].tool = "pico_query"
    /\ heap[1].status = "completed"
    /\ heap[2].tool = "pubmed_search"
    /\ get_main_agent(Mgr) # 0
    /\ Agents[get_main_agent(Mgr)].current_tool = "pubmed_search"

\* the state of the first agent named "main" in a list of agents that has one
MainStatus(agents) ==
    agents[FirstIndex({i \in 1..Len(agents) : agents[i].name = "main"})].status

HasMain(agents) == \E i \in 1..Len(agents) : agents[i].name = "main"

\* update_phase(phase, ...) in the present state sets the main agent's state by
\* the table of the claim
PhaseTable ==
    \A phase \in PhaseNames, raises \in Outcomes :
        LET after == update_phase(Mgr, now, callback, raises, phase, << >>).m.state
        IN  HasMain(Agents) =>
                /\ HasMain(after.active_agents)
                /\ after.phase = phase
                /\ MainStatus(after.active_agents) =
                      CASE phase = "planning" -> AgentState("planning")
                        [] phase = "execution" -> AgentState("running")
                        [] phase = "synthesis" -> AgentState("running")
                        [] phase = "complete" -> AgentState("completed")
                        [] OTHER -> MainStatus(Agents)

\* the step is a call of update_phase
IsUpdatePhase ==
    \E raises \in Outcomes, phase \in PhaseNames :
        state' = update_phase(Mgr, now, callback, raises, phase, << >>).m.state

\* the step is a call of update_agent_status for the agent "main"
IsUpdateMainAgent ==
    \E raises \in Outcomes, tool \in {None, "pico_query"} :
        state' = update_agent_status(Mgr, now, callback, raises, "main", "running",
                                     tool).m.state

\* C24: update_phase sets the main agent's state to planning for "planning", to
\* running for "execution" and "synthesis", to completed for "complete", and leaves
\* it as it is for every other phase (init, formatting, error, an unknown name);
\* and a call that changes the main agent's state is update_phase, or
\* update_agent_status naming the agent "main": no other operation sets it
C24_PhaseSetsMainAgent ==
    /\ []PhaseTable
    /\ [][(/\ HasMain(Agents)
           /\ HasMain(Agents')
           /\ MainStatus(Agents') # MainStatus(Agents)) =>
              (IsUpdatePhase \/ IsUpdateMainAgent)]_vars

\* update_phase("complete") has set the main agent's state and
\* update_phase("formatting") after it has left it completed
C24_Witness ==
    /\ state.phase = "formatting"
    /\ HasMain(Agents)
    /\ MainStatus(Agents) = AgentState("completed")

\* the execution is in the Tracker's list: add_tool_execution registered it
IsRegistered(execution) ==
    \E k \in 1..Len(state.tool_executions) : state.tool_executions[k] = execution

\* C38: update_tool_execution, called in the present state for a registered
\* execution with any status, leaves the number of records as it is and leaves
\* every record but that execution's own as it is, executions of the same tool
\* with the same start timestamp included
C38_OnlyOwnRecordChanged ==
    \A execution \in 1..Len(heap), status \in ToolStatusValues, raises \in Outcomes :
        IsRegistered(execution) =>
            LET m1 == [Mgr EXCEPT !.heap[execution].status = status]
                after == update_tool_execution(m1, now, callback, raises, execution).m
            IN  /\ Len(after.state.tool_executions) = Len(state.tool_executions)
                /\ \A k \in 1..Len(state.tool_executions) :
                      state.tool_executions[k] # execution =>
                          after.heap[after.state.tool_executions[k]] =
                              heap[state.tool_executions[k]]

\* ids a caller may pass: the ids of the model's steps and one that is never
\* registered
AnyStepIds == StepIds \cup {"none"}

\* update_step_status with an id no registered step has, called in the present
\* state, returns the manager as it is and hands nothing to the observer
UnmatchedIdIgnored ==
    \A id \in AnyStepIds, status \in StatusArgs, raises \in Outcomes,
       error \in {None, "boom"} :
        (\A k \in 1..Len(Steps) : Steps[k].id # id) =>
            LET res == update_step_status(Mgr, now, callback, raises, id, status, error)
            IN  /\ res.m = Mgr
                /\ res.delivered = << >>
                /\ ~res.raised
                /\ ~res.escaped

\* C39: update_step_status with an id that matches no registered step changes
\* nothing in the Tracker's state (steps, agents, tool executions, phase, progress,
\* updated_at) and does not invoke the observer; and the calls of a caller that
\* return before _emit_update leave the Tracker as it was
C39_UnmatchedIdChangesNothing ==
    /\ []UnmatchedIdIgnored
    /\ [][(calls' = calls + 1 /\ last'.kind = "returned") =>
              /\ state' = state
              /\ step_start_times' = step_start_times
              /\ tool_start_times' = tool_start_times
              /\ heap' = heap
              /\ last'.delivered = << >>]_vars

\* with an observer and one step registered and time gone by since, a call of
\* update_step_status for another id has returned: nothing was delivered and
\* updated_at is still the time of the registration
C39_Witness ==
    /\ callback = "observer"
    /\ Len(Steps) = 1
    /\ last.kind = "returned"
    /\ last.delivered = << >>
    /\ now > state.updated_at

-----------------------------------------------------------------------------
(* Claims about analyze_topic, continued; checked under SpecRun *)

\* the ids and the action tags of the first n steps the Tracker holds
Registered(n) == [k \in 1..n |-> PlanStep(Steps[k].id, Steps[k].action)]

\* C22: when the model call or the parser raises, plan creation raises nothing: it
\* returns the default plan (ids 1..4, pico_query, pubmed_search,
\* evidence_classification, synthesis), and the Tracker holds each of the four
\* steps exactly once, in that order
C22_DefaultPlanOnRaise ==
    run.plan_raised =>
        /\ run.steps = default_steps
        /\ Len(default_steps) = 4
        /\ [k \in 1..4 |-> default_steps[k].id] = << "1", "2", "3", "4" >>
        /\ [k \in 1..4 |-> default_steps[k].action] =
              << "pico_query", "pubmed_search", "evidence_classification", "synthesis" >>
        /\ IF run.pc = "register"
           THEN /\ Len(Steps) = run.i - 1
                /\ Registered(run.i - 1) = SubSeq(default_steps, 1, run.i - 1)
           ELSE /\ Len(Steps) = 4
                /\ Registered(4) = default_steps

\* the plan creation raised and the execution of the default plan has begun
C22_Witness ==
    /\ run.plan_raised
    /\ run.pc = "loop"
    /\ run.i = 1
    /\ Len(Steps) = 4

\* the snapshots the latest Tracker call handed to the observer
Emitted == last.delivered

\* C28: in every snapshot emitted during a run a tool execution that is running
\* has no duration_ms and no completed_at, and one that is completed or failed
\* has both, the duration not negative
C28_ToolTiming ==
    \A k \in 1..Len(Emitted) :
        \A j \in 1..Len(Emitted[k].tool_executions) :
            LET e == Emitted[k].tool_executions[j]
            IN  /\ e.status \in ToolStatusValues
                /\ e.status = "running" =>
                      (e.duration_ms = NoTime /\ e.completed_at = NoTime)
                /\ e.status \in {"completed", "failed"} =>
                      /\ e.duration_ms # NoTime
                      /\ e.duration_ms >= 0
                      /\ e.completed_at # NoTime

\* a snapshot with the failed tool execution of the first step, which took a
\* unit of time, and the running one of the second
C28_Witness ==
    /\ Len(Emitted) = 1
    /\ Len(Emitted[1].tool_executions) = 2
    /\ Emitted[1].tool_executions[1].status = "failed"
    /\ Emitted[1].tool_executions[1].duration_ms = 1
    /\ Emitted[1].tool_executions[2].status = "running"

\* the status changes of a step in a run: none, pending -> in_progress,
\* in_progress -> completed or failed
RunStepMove(a, b) ==
    \/ a = b
    \/ a = "pending" /\ b = "in_progress"
    \/ a = "in_progress" /\ b \in {"completed", "failed"}

\* C31: in a run (whose steps have distinct ids) a step enters the Tracker as
\* pending, its status changes only from pending to in_progress and from
\* in_progress to completed or failed, so it never changes again after that; and
\* once execution has returned every step of the plan is completed or failed
C31_StepHistory ==
    /\ [](ExecutionReturned =>
             /\ Len(Steps) = Len(run.steps)
             /\ \A k \in 1..Len(Steps) : Steps[k].status.value \in {"completed", "failed"})
    /\ [][/\ Len(state'.planning_steps) >= Len(Steps)
          /\ \A k \in 1..Len(Steps) :
                /\ state'.planning_steps[k].id = Steps[k].id
                /\ RunStepMove(Steps[k].status.value,
                               state'.planning_steps[k].status.value)
          /\ \A k \in (Len(Steps) + 1)..Len(state'.planning_steps) :
                state'.planning_steps[k].status.value = "pending"]_vars

\* the run of the default plan has returned: its third step failed, the others
\* completed, each after it was marked in_progress
C31_Witness ==
    /\ run.pc = "done"
    /\ Len(Steps) = 4
    /\ \A k \in 1..4 : Steps[k].started_at # NoTime
    /\ Steps[1].status.value = "completed"
    /\ Steps[2].status.value = "completed"
    /\ Steps[3].status.value = "failed"
    /\ Steps[4].status.value = "completed"

\* C32: once analyze_topic has returned its result, the Tracker's state has phase
\* "complete", overall_progress 100 and its main agent in state completed
C32_TrackerComplete ==
    run.pc = "done" =>
        /\ state.phase = "complete"
        /\ state.overall_progress = 100
        /\ MainStatus(Agents).value = "completed"

\* C33: in a run that returns its result with an external callback registered,
\* the progress values the callback was handed, directly and through forwarded
\* snapshots, start at 5, end at 100 and never decrease
C33_ProgressMonotone ==
    (run.pc = "done" /\ callback = "_on_progress_update") =>
        LET n == Len(run.reported)
        IN  /\ n >= 1
            /\ run.reported[1].progress = 5
            /\ run.reported[n].progress = 100
            /\ \A j \in 1..(n - 1) :
                  run.reported[j].progress <= run.reported[j + 1].progress

\* the sections of the first n findings that carry no error, in their order
RECURSIVE ContentsOfReturned(_)
ContentsOfReturned(n) ==
    IF n = 0 THEN << >>
    ELSE IF run.findings[n].error # None THEN ContentsOfReturned(n - 1)
    ELSE Append(ContentsOfReturned(n - 1),
                [step_id |-> run.findings[n].step_id,
                 content |-> run.findings[n].content])

\* C36: the context handed to the handler of the j-th step is the original query
\* followed by the contents of the steps before it whose handlers returned, in the
\* order of the steps; a step whose handler raised adds nothing to it
C36_ContextOfReturnedSteps ==
    \A j \in 1..Len(run.invoked) :
        /\ run.invoked[j].step_id = run.steps[j].id
        /\ j - 1 <= Len(run.findings)
        /\ run.invoked[j].context.query = run.query
        /\ run.invoked[j].context.sections = ContentsOfReturned(j - 1)

\* in the default plan the first and the third step raised and the second
\* returned: the handler of the fourth was handed the query and the content of the
\* second step only
C36_Witness ==
    /\ Len(run.invoked) = 4
    /\ run.findings[1].error # None
    /\ run.findings[2].error = None
    /\ run.findings[3].error # None
    /\ run.invoked[4].context =
          [query |-> run.query,
           sections |-> << [step_id |-> run.steps[2].id,
                            content |-> run.findings[2].content] >>]

\* the run is between two steps of the loop, before the first or after the last
BetweenSteps == run.pc \in {"loop", "track"} \/ ExecutionReturned

\* C37: between two steps of a run and once execution has returned, no tool
\* execution of the Tracker's state is running and the main agent's current_tool
\* is null, whether the steps returned or raised
C37_NoToolLeftRunning ==
    BetweenSteps =>
        /\ \A k \in 1..Len(state.tool_executions) :
              heap[state.tool_executions[k]].status \in {"completed", "failed"}
        /\ \A a \in 1..Len(Agents) :
              Agents[a].name = "main" => Agents[a].current_tool = None

\* the first step raised and the second returned; the loop is about to start the
\* third step
C37_Witness ==
    /\ run.pc = "loop"
    /\ run.i = 3
    /\ Len(state.tool_executions) = 2
    /\ ToolOfStep(1).status = "failed"
    /\ ToolOfStep(2).status = "completed"
    /\ Agents[get_main_agent(Mgr)].current_tool = None

-----------------------------------------------------------------------------
(* Claims about calculate_overall_progress, checked under SpecProgress *)

\* the number of steps whose status is one of these enum members
StepsWith(values) ==
    Cardinality({i \in 1..Len(Steps) :
                    Steps[i].status.kind = "StepStatus" /\ Steps[i].status.value \in values})

\* C29: calculate_overall_progress returns the floor of (c + p / 2) / t * 100 for
\* the counts c of completed or skipped steps, p of in_progress steps and t of
\* all steps, a value within 0..100; without steps it returns the stored
\* overall_progress; it hands no snapshot to an observer (that it leaves the
\* state alone is seen in the code: it assigns nothing)
C29_ProgressFormula ==
    last.kind = "calculate_overall_progress" =>
        LET c == StepsWith({"completed", "skipped"})
            p == StepsWith({"in_progress"})
            t == Len(Steps)
        IN  /\ last.delivered = << >>
            /\ last.returned \in 0..100
            /\ last.returned =
                  IF t = 0 THEN state.overall_progress
                  ELSE ((2 * c + p) * 50) \div t

\* the number of sources of the findings before the j-th
RECURSIVE SourcesBefore(_)
SourcesBefore(j) ==
    IF j <= 1 THEN 0 ELSE SourcesBefore(j - 1) + run.findings[j - 1].sources

\* C30: the sources section of the report lists the first min(k, 20) of the k
\* sources the findings have accumulated, in the order of the findings and of the
\* sources within each, numbered from 1 (so 1..20 when there are more than 20);
\* with no source the section is not written
C30_SourcesSection ==
    run.pc = "done" =>
        LET n == Len(run.findings)
            k == SourcesBefore(n + 1)
            section == run.formatted[1].sources_section
        IN  IF k = 0 THEN section = << >>
            ELSE /\ Len(section) = 1
                 /\ Len(section[1]) = Min(k, 20)
                 /\ \A i \in 1..Len(section[1]) : section[1][i].number = i
                 /\ \A j \in 1..n :
                       \A x \in 1..run.findings[j].sources :
                           LET i == SourcesBefore(j) + x
                           IN  i <= 20 =>
                                 section[1][i].source =
                                     [step_id |-> run.findings[j].step_id, index |-> x]

\* two searches returned twelve records each, and the report lists twenty
C30_Witness ==
    /\ run.pc = "done"
    /\ Len(run.findings) = 2
    /\ run.findings[1].sources = 12
    /\ run.findings[2].sources = 12
    /\ Len(run.formatted[1].sources_section[1]) = 20

-----------------------------------------------------------------------------
(* Claims about the execution of one step, checked under SpecStep *)

\* the handler the claim names for each tag of the table
DispatchTable ==
    [a \in {"pico_query", "pico"} |-> "pico"]
    @@ [a \in {"mesh_mapping", "mesh"} |-> "mesh"]
    @@ [a \in {"pubmed_search", "search", "pubmed"} |-> "pubmed"]
    @@ [a \in {"evidence_classification", "evidence", "classify"} |-> "evidence"]
    @@ [a \in {"synthesis", "synthesize"} |-> "synthesis"]

\* C26: the step's action tag selects its handler by the table: pico_query and
\* pico the PICO handler, mesh_mapping and mesh the MeSH handler, pubmed_search,
\* search, pubmed and every tag outside the table ("unknown" among them) the
\* search handler, evidence_classification, evidence and classify the evidence
\* classifier, synthesis and synthesize the synthesis handler; the evidence
\* classifier, and no other handler, is called with the context alone
C26_Dispatch ==
    \A j \in 1..Len(run.invoked) :
        LET action == run.steps[j].action
            call == run.invoked[j]
        IN  /\ call.step_id = run.steps[j].id
            /\ call.handler =
                  IF action \in DOMAIN DispatchTable THEN DispatchTable[action]
                  ELSE "pubmed"
            /\ call.with_query = (call.handler # "evidence")

\* a step with a tag outside the table was handed to the search handler, with
\* the query
C26_Witness ==
    /\ Len(run.invoked) = 1
    /\ run.steps[1].action = "review"
    /\ run.invoked[1].handler = "pubmed"
    /\ run.invoked[1].with_query

\* C27: a tool wrapper that is missing or raises does not by itself make the step
\* fail: while the fallback of the handler works (the model call of the PICO and
\* evidence handlers; the MeSH and search handlers need none) the handler returns,
\* and the step whose handler returned on a fallback ends completed, with one
\* finding that has the fallback's content and no error
C27_ToolFailureRecovered ==
    /\ [](run.pc = "handler" =>
            LET handler == handler_of(run.steps[run.i].action)
            IN  \A llm_ok, search_ok \in BOOLEAN, hits \in ResultCounts :
                    (handler \in {"mesh", "pubmed"} \/ llm_ok) =>
                        LET o == HandlerOutcome(handler, FALSE, llm_ok, search_ok, hits)
                        IN  /\ ~o.raised
                            /\ o.via \in {"llm", "search", "fixed"})
    /\ [][(/\ run.pc = "finish_step"
           /\ run'.pc # "finish_step"
           /\ run.outcome.via \in {"llm", "search", "fixed"}) =>
              LET step == run.steps[run.i]
                  finding == run'.findings[Len(run'.findings)]
              IN  /\ state'.planning_steps[run.i].id = step.id
                  /\ state'.planning_steps[run.i].status = StepStatus("completed")
                  /\ heap[run.tool_exec].status = "completed"
                  /\ Len(run'.findings) = Len(run.findings) + 1
                  /\ finding.step_id = step.id
                  /\ finding.content = run.outcome.via
                  /\ finding.error = None]_vars

\* the tool wrapper of a PICO step failed, the model call answered, and the step
\* has ended completed with the finding of the model call
C27_Witness ==
    /\ run.pc = "synth_phase"
    /\ run.steps[1].action = "pico"
    /\ Len(run.findings) = 1
    /\ run.findings[1].content = "llm"
    /\ run.findings[1].error = None
    /\ Steps[1].status = StepStatus("completed")

-----------------------------------------------------------------------------
(* Claims about a job of the API, checked under SpecJob, where               *)
(* cancel_research may be served between any two steps of the run            *)

Job == research_jobs[1]

\* the loop over the steps is over
LoopLeft ==
    \/ ExecutionReturned
    \/ run.pc = "returned" /\ run.steps # << >>

\* every step of the plan was started, its handler was invoked once, it has
\* ended completed or failed and it has a finding
AllStepsExecuted ==
    /\ \A k \in 1..Len(run.steps) : StepHandled(k)
    /\ Len(run.invoked) = Len(run.steps)
    /\ Len(run.findings) = Len(run.steps)

TerminalStatus == {"completed", "failed", "cancelled"}

\* C34: once the status of a job is completed, failed or cancelled, no step
\* changes it: a cancelled job is not marked running, completed or failed by
\* run_research, and a finished job is not marked anything else
C34_TerminalStatusKept ==
    [][(research_jobs # << >> /\ Job.status \in TerminalStatus) =>
          Job'.status = Job.status]_vars

\* C35: a job start_research has stored (status pending) reaches the status
\* completed or failed, given that the task is run and its calls return or raise,
\* also when a cancel is served before or during the run; and when
\* analyze_topic raises, run_research leaves the job failed with the error text
\* and the phase "error"
C35_JobEnds ==
    /\ (research_jobs # << >> /\ Job.status = "pending") ~>
          (research_jobs # << >> /\ Job.status \in {"completed", "failed"})
    /\ [][(run.pc = "raised" /\ run'.pc = "returned") =>
              /\ Job'.status = "failed"
              /\ Job'.error = "boom"
              /\ Job'.phase = "error"]_vars

\* the synthesis raised after the two steps of the plan ran, and run_research
\* has marked the job failed
C35_Witness ==
    /\ research_jobs # << >>
    /\ run.pc = "returned"
    /\ Len(run.findings) = 2
    /\ run.error = "boom"
    /\ Job.status = "failed"
    /\ Job.error = "boom"
    /\ Job.phase = "error"

====
